---- MODULE Spec2Model ----
(***************************************************************************)
(* Contest practice backend: problem catalog and selector                  *)
(* (app/services/problem_service.py), contest lifecycle                    *)
(* (app/services/contest_service.py), rating engine                        *)
(* (app/services/rating_service.py) over the tables of app/models.py.      *)
(*                                                                         *)
(* The specifications share the variables:                                 *)
(*   Spec        the contest lifecycle of two users, one service call per  *)
(*               step, at one instant;                                     *)
(*   SpecContest one contest of two problems, with the clock advancing;    *)
(*   SpecLadder  one user's contests one after the other;                  *)
(*   SpecRating  the two per-problem update functions of the rating        *)
(*               engine, called directly on a user's rows;                 *)
(*   SpecSelect  the selector, applied to inputs drawn from bounded sets;  *)
(*   SpecRemedy  a user's weak topic and the contests created meanwhile;   *)
(*   SpecWeakEnd a user's weak topic and contests created and ended;       *)
(*   SpecStarve  a user with two weak topics and one reserved slot;        *)
(*   SpecHistory one user's contests over more than thirty days;           *)
(*   SpecRace    create and end calls running side by side;                *)
(*   SpecReflect a user's contests and the reflections of their problems.  *)
(***************************************************************************)
EXTENDS Integers, Sequences, FiniteSets, TLC

VARIABLES
    catalog,          \* ProblemService._problems after load_problems
    users,            \* table users: id -> row
    topic_ratings,    \* table user_topic_ratings: set of rows
    weak_topics,      \* table weak_topics: sequence of rows, row id = index
    contests,         \* table contests (+ contest_problems): sequence, id = index
    problem_history,  \* table problem_history: set of rows
    now,              \* datetime.utcnow(), in minutes
    resp,             \* the last service call and what it returned or raised
    requests,         \* calls running side by side: what each has read, and
                      \* whether it has passed its check or is done
    reflections       \* table problem_reflections: set of rows

vars == <<catalog, users, topic_ratings, weak_topics, contests,
          problem_history, now, resp, requests, reflections>>

(***************************************************************************)
(* Generic helpers                                                         *)
(***************************************************************************)
Null == -1

Min(a, b) == IF a <= b THEN a ELSE b

Max(a, b) == IF a >= b THEN a ELSE b

Abs(x) == IF x < 0 THEN -x ELSE x

Range(s) == {s[i] : i \in DOMAIN s}

\* all orders a list of the elements of S can be shuffled into
Perms(S) == {s \in [1..Cardinality(S) -> S] : Range(s) = S}

\* all lists of k distinct elements of S
Arrangements(S, k) ==
    {s \in [1..k -> S] : \A i, j \in 1..k : i # j => s[i] # s[j]}

RECURSIVE SumSeq(_)
SumSeq(s) == IF s = <<>> THEN 0 ELSE Head(s) + SumSeq(Tail(s))

(***************************************************************************)
(* models.py: the enums                                                    *)
(***************************************************************************)
ContestStatus == {"active", "completed", "abandoned"}

SubmissionStatus == {"pending", "solved", "failed", "skipped"}

(***************************************************************************)
(* problem_service.py: catalog                                             *)
(***************************************************************************)
DIFFICULTY_TOLERANCE == 5

\* the longest topic list of which every shuffle is followed
MaxShuffle == 4

\* problem.primary_skills[0].lower().replace(" ", "_"), prefixed "skill_"
SkillTopic(skill) ==
    CASE skill = "Binary Search" -> "skill_binary_search"
      [] skill = "binary search" -> "skill_binary_search"
      [] skill = "Greedy"        -> "skill_greedy"
      [] skill = "greedy"        -> "skill_greedy"
      [] OTHER                   -> "skill_other"

\* _get_topic: pattern_id, else the first primary skill, else "general"
GetTopic(p) ==
    IF p.pattern_id # "" THEN p.pattern_id
    ELSE IF p.primary_skills # <<>> THEN SkillTopic(p.primary_skills[1])
    ELSE "general"

\* load_problems: records without id or url are skipped
LoadProblems(raw) == SelectSeq(raw, LAMBDA p : p.id # "" /\ p.url # "")

\* list(self._problems_by_topic.keys()): topics in order of first appearance
RECURSIVE TopicKeysOf(_)
TopicKeysOf(ps) ==
    IF ps = <<>> THEN <<>>
    ELSE LET front == TopicKeysOf(SubSeq(ps, 1, Len(ps) - 1))
             t     == GetTopic(ps[Len(ps)])
         IN  IF t \in Range(front) THEN front ELSE Append(front, t)

TopicKeys(cat) == TopicKeysOf(cat)

\* self._problems_by_topic[topic]
ProblemsByTopic(cat, topic) == SelectSeq(cat, LAMBDA p : GetTopic(p) = topic)

\* get_problem
GetProblem(cat, id) ==
    LET hits == {i \in DOMAIN cat : cat[i].id = id}
    IN  IF hits = {} THEN <<>>
        ELSE <<cat[CHOOSE i \in hits : \A j \in hits : j <= i]>>

(***************************************************************************)
(* problem_service.py: selector                                            *)
(***************************************************************************)
\* a retry that drops the difficulty filter
TopicCandidatesAnyLevel(cat, topic, difficulty, tolerance, excluded) ==
    LET pool   == Range(SelectSeq(cat, LAMBDA p : GetTopic(p) = topic))
        tight  == {p \in pool : p.id \notin excluded
                                /\ Abs(p.difficulty - difficulty) <= tolerance}
        loose  == {p \in pool : p.id \notin excluded}
    IN  IF tight # {} THEN tight ELSE loose

\* a retry at three times the tolerance
TopicCandidatesTriple(cat, topic, difficulty, tolerance, excluded) ==
    LET pool   == Range(SelectSeq(cat, LAMBDA p : GetTopic(p) = topic))
        tight  == {p \in pool : p.id \notin excluded
                                /\ Abs(p.difficulty - difficulty) <= tolerance}
        loose  == {p \in pool : p.id \notin excluded
                                /\ Abs(p.difficulty - difficulty) <= tolerance * 3}
    IN  IF tight # {} THEN tight ELSE loose

\* _select_problem_for_topic: the candidates random.choice draws from;
\* {} stands for the None result
TopicCandidates(cat, topic, difficulty, tolerance, excluded) ==
    LET pool   == Range(ProblemsByTopic(cat, topic))
        tight  == {p \in pool : p.id \notin excluded
                                /\ Abs(p.difficulty - difficulty) <= tolerance}
        loose  == {p \in pool : p.id \notin excluded
                                /\ Abs(p.difficulty - difficulty) <= tolerance * 2}
    IN  IF topic \notin Range(TopicKeys(cat)) THEN {}
        ELSE IF tight # {} THEN tight ELSE loose

\* a fallback that does not filter on the excluded ids
FallbackListsAny(cat, difficulty, count, excluded) ==
    LET cands == SelectSeq(cat, LAMBDA p :
                     Abs(p.difficulty - difficulty) <= DIFFICULTY_TOLERANCE * 3)
    IN  IF Len(cands) <= count THEN {cands}
        ELSE Arrangements(Range(cands), count)

\* _select_fallback_problems: every list the call can return
FallbackLists(cat, difficulty, count, excluded) ==
    LET cands == SelectSeq(cat, LAMBDA p :
                     p.id \notin excluded
                     /\ Abs(p.difficulty - difficulty) <= DIFFICULTY_TOLERANCE * 3)
    IN  IF Len(cands) <= count THEN {cands}
        ELSE Arrangements(Range(cands), count)

Item(p, topic, weak, target) ==
    [problem |-> p, topic |-> topic,
     is_weak_topic_problem |-> weak, target_difficulty |-> target]

\* a reservation of one slot per weak topic, whatever num_problems is
WeakTopicCountAll(num_problems, weak_list, include_weak) ==
    IF include_weak THEN Len(weak_list) ELSE 0

\* how many weak-topic slots are reserved (lines 164-166)
WeakTopicCount(num_problems, weak_list, include_weak) ==
    IF include_weak /\ weak_list # <<>>
    THEN Min(Len(weak_list), Max(1, num_problems \div 3))
    ELSE 0

\* the weak-topic loop (lines 169-187), from position i of the reserved prefix;
\* st = [selected, used_ids, used_topics]
RECURSIVE WeakSlice(_, _, _, _, _)
WeakSlice(cat, target, reserved, i, st) ==
    IF i > Len(reserved) THEN {st}
    ELSE LET topic == reserved[i]
             cands == TopicCandidates(cat, topic, target - 10,
                                      DIFFICULTY_TOLERANCE + 5, st.used_ids)
         IN  IF cands = {} THEN WeakSlice(cat, target, reserved, i + 1, st)
             ELSE UNION {WeakSlice(cat, target, reserved, i + 1,
                            [selected    |-> Append(st.selected,
                                               Item(p, topic, TRUE, target - 10)),
                             used_ids    |-> st.used_ids \cup {p.id},
                             used_topics |-> st.used_topics \cup {topic}])
                         : p \in cands}

Reverse(s) == [i \in 1..Len(s) |-> s[Len(s) + 1 - i]]

\* random.shuffle of the topics S: every order of a short list; of a longer
\* one the order of the catalog and its reverse
Shuffles(cat, S) ==
    IF Cardinality(S) <= MaxShuffle THEN Perms(S)
    ELSE LET keys == SelectSeq(TopicKeys(cat), LAMBDA t : t \in S)
         IN  {keys, Reverse(keys)}

\* one pass of the while loop body (lines 201-230);
\* s = [selected, used_ids, avail, idx, attempts, raised]
DiversityDone(s, num_problems, max_attempts) ==
    s.raised \/ ~(Len(s.selected) < num_problems /\ s.attempts < max_attempts)

\* a loop that stays on a topic that has just given a problem
DiversityStepStay(cat, target, s) ==
    LET attempts == s.attempts + 1
        wrap     == s.idx >= Len(s.avail)
        idx      == IF wrap THEN 0 ELSE s.idx
        avails   == IF wrap /\ attempts > Len(s.avail)
                    THEN Shuffles(cat, Range(TopicKeys(cat))) ELSE {s.avail}
    IN  UNION {
          IF idx >= Len(avail)
          THEN {[s EXCEPT !.raised = TRUE, !.attempts = attempts,
                          !.avail = avail, !.idx = idx]}
          ELSE LET topic == avail[idx + 1]
                   cands == TopicCandidates(cat, topic, target,
                                            DIFFICULTY_TOLERANCE, s.used_ids)
                   moved == [s EXCEPT !.attempts = attempts, !.avail = avail,
                                      !.idx = idx + 1]
               IN  IF cands = {} THEN {moved}
                   ELSE {[moved EXCEPT
                            !.idx = idx,
                            !.selected = Append(s.selected,
                                            Item(p, topic, FALSE, target)),
                            !.used_ids = s.used_ids \cup {p.id}] : p \in cands}
          : avail \in avails}

DiversityStep(cat, target, s) ==
    LET attempts == s.attempts + 1
        wrap     == s.idx >= Len(s.avail)
        idx      == IF wrap THEN 0 ELSE s.idx
        avails   == IF wrap /\ attempts > Len(s.avail)
                    THEN Shuffles(cat, Range(TopicKeys(cat))) ELSE {s.avail}
    IN  UNION {
          IF idx >= Len(avail)
          THEN {[s EXCEPT !.raised = TRUE, !.attempts = attempts,
                          !.avail = avail, !.idx = idx]}
          ELSE LET topic == avail[idx + 1]
                   cands == TopicCandidates(cat, topic, target,
                                            DIFFICULTY_TOLERANCE, s.used_ids)
                   moved == [s EXCEPT !.attempts = attempts, !.avail = avail,
                                      !.idx = idx + 1]
               IN  IF cands = {} THEN {moved}
                   ELSE {[moved EXCEPT
                            !.selected = Append(s.selected,
                                            Item(p, topic, FALSE, target)),
                            !.used_ids = s.used_ids \cup {p.id}] : p \in cands}
          : avail \in avails}

RECURSIVE DiversityLoop(_, _, _, _, _)
DiversityLoop(cat, target, num_problems, max_attempts, S) ==
    IF \A s \in S : DiversityDone(s, num_problems, max_attempts) THEN S
    ELSE DiversityLoop(cat, target, num_problems, max_attempts,
            UNION {IF DiversityDone(s, num_problems, max_attempts) THEN {s}
                   ELSE DiversityStep(cat, target, s) : s \in S})

\* the fallback block (lines 233-246)
FallbackSlice(cat, target, num_problems, s) ==
    IF s.raised \/ ~(Len(s.selected) < num_problems) THEN {s}
    ELSE {[s EXCEPT !.selected = s.selected \o
                      [i \in 1..Len(fb) |->
                          Item(fb[i], GetTopic(fb[i]), FALSE, target)]]
          : fb \in FallbackLists(cat, target, num_problems - Len(s.selected),
                                 s.used_ids)}

\* select_problems_for_contest: every outcome [raised, items] the call can
\* have; topical counts the items chosen before the fallback block, the ids
\* that lines 185 and 229 added to used_problem_ids
SelectProblemsForContest(cat, target, num_problems, weak_list, excluded, include_weak) ==
    LET count  == WeakTopicCount(num_problems, weak_list, include_weak)
        weak   == WeakSlice(cat, target, SubSeq(weak_list, 1, count), 1,
                            [selected |-> <<>>, used_ids |-> excluded,
                             used_topics |-> {}])
        starts == UNION {
                    {[selected |-> w.selected, used_ids |-> w.used_ids,
                      avail |-> av, idx |-> 0, attempts |-> 0, raised |-> FALSE]
                     : av \in Shuffles(cat, {t \in Range(TopicKeys(cat)) :
                                                t \notin w.used_topics})}
                    : w \in weak}
        ends   == UNION {
                    DiversityLoop(cat, target, num_problems,
                                  (num_problems - Len(s0.selected)) * 10, {s0})
                    : s0 \in starts}
        final  == UNION {FallbackSlice(cat, target, num_problems, s) : s \in ends}
    IN  {[raised |-> s.raised, items |-> IF s.raised THEN <<>> ELSE s.selected,
          topical |-> Cardinality(s.used_ids \ excluded)]
         : s \in final}

(***************************************************************************)
(* models.py: rows                                                         *)
(***************************************************************************)
INITIAL_RATING == 20

\* User(rating=20), counters default 0
NewUser ==
    [rating |-> INITIAL_RATING, total_contests |-> 0,
     total_problems_solved |-> 0, total_problems_attempted |-> 0]

\* UniqueConstraint("user_id", "topic", "is_active") on weak_topics
WeakTopicsUnique(rows) ==
    \A i, j \in DOMAIN rows :
        (i # j /\ rows[i].user_id = rows[j].user_id
                /\ rows[i].topic = rows[j].topic)
            => rows[i].is_active # rows[j].is_active

\* UniqueConstraint("user_id", "topic") on user_topic_ratings
TopicRatingsUnique(rows) ==
    \A a, b \in rows : (a.user_id = b.user_id /\ a.topic = b.topic) => a = b

\* the database as the rating engine sees it
Database == [users |-> users, topic_ratings |-> topic_ratings,
             weak_topics |-> weak_topics, contests |-> contests]

(***************************************************************************)
(* rating_service.py                                                       *)
(***************************************************************************)
RATING_INCREASE == 10

WEAK_TOPIC_SOLVES_TO_ADVANCE == 2

WEAK_TOPIC_LEVEL_STEP == 5

\* the query WeakTopic(user_id, topic, is_active == True).first(): row ids
ActiveWeakRows(rows, uid, topic) ==
    {i \in DOMAIN rows : rows[i].user_id = uid /\ rows[i].topic = topic
                         /\ rows[i].is_active}

\* get_user_weak_topics: the active rows of a user
UserWeakRows(rows, uid) ==
    {i \in DOMAIN rows : rows[i].user_id = uid /\ rows[i].is_active}

NewResult(rating) ==
    [old_rating |-> rating, new_rating |-> rating, rating_change |-> 0,
     new_weak_topics |-> <<>>, weak_topics_improved |-> <<>>,
     weak_topics_resolved |-> <<>>, topics_passed |-> <<>>,
     topics_failed |-> <<>>, problems_solved |-> 0, total_problems |-> 0]

\* the row a weak-topic result leaves behind (lines 131-156)
\* a weak-topic update that levels up on every solve
WeakRowEager(row, solved, t) ==
    LET touched == [row EXCEPT !.total_attempts = @ + 1, !.last_attempt_at = t]
    IN  IF solved
        THEN LET level == touched.current_level + WEAK_TOPIC_LEVEL_STEP
             IN  IF level >= touched.target_level
                 THEN [touched EXCEPT !.current_level = level,
                                      !.consecutive_solves = 0,
                                      !.is_active = FALSE,
                                      !.resolved_at = t]
                 ELSE [touched EXCEPT !.current_level = level,
                                      !.consecutive_solves = 0]
        ELSE [touched EXCEPT !.total_failures = @ + 1,
                             !.consecutive_solves = 0]

\* a weak-topic update that regresses from the second failure on
WeakRowHasty(row, solved, t) ==
    LET touched == [row EXCEPT !.total_attempts = @ + 1, !.last_attempt_at = t]
    IN  IF solved
        THEN LET streak == touched.consecutive_solves + 1
             IN  IF streak >= WEAK_TOPIC_SOLVES_TO_ADVANCE
                 THEN LET level == touched.current_level + WEAK_TOPIC_LEVEL_STEP
                      IN  IF level >= touched.target_level
                          THEN [touched EXCEPT !.current_level = level,
                                               !.consecutive_solves = 0,
                                               !.is_active = FALSE,
                                               !.resolved_at = t]
                          ELSE [touched EXCEPT !.current_level = level,
                                               !.consecutive_solves = 0]
                 ELSE [touched EXCEPT !.consecutive_solves = streak]
        ELSE LET failed == [touched EXCEPT !.total_failures = @ + 1,
                                           !.consecutive_solves = 0]
             IN  IF failed.total_failures > 1 /\ failed.current_level > 10
                 THEN [failed EXCEPT !.current_level =
                          Max(10, failed.current_level - WEAK_TOPIC_LEVEL_STEP)]
                 ELSE failed

WeakRowAfter(row, solved, t) ==
    LET touched == [row EXCEPT !.total_attempts = @ + 1, !.last_attempt_at = t]
    IN  IF solved
        THEN LET streak == touched.consecutive_solves + 1
             IN  IF streak >= WEAK_TOPIC_SOLVES_TO_ADVANCE
                 THEN LET level == touched.current_level + WEAK_TOPIC_LEVEL_STEP
                      IN  IF level >= touched.target_level
                          THEN [touched EXCEPT !.current_level = level,
                                               !.consecutive_solves = 0,
                                               !.is_active = FALSE,
                                               !.resolved_at = t]
                          ELSE [touched EXCEPT !.current_level = level,
                                               !.consecutive_solves = 0]
                 ELSE [touched EXCEPT !.consecutive_solves = streak]
        ELSE LET failed == [touched EXCEPT !.total_failures = @ + 1,
                                           !.consecutive_solves = 0]
             IN  IF failed.total_failures > 3 /\ failed.current_level > 10
                 THEN [failed EXCEPT !.current_level =
                          Max(10, failed.current_level - WEAK_TOPIC_LEVEL_STEP)]
                 ELSE failed

\* _process_weak_topic_result; db.commit() raises IntegrityError when the
\* flushed rows break the unique constraint, and the transaction is rolled back
ProcessWeakTopicResult(db, uid, topic, solved, result, t) ==
    LET hits == ActiveWeakRows(db.weak_topics, uid, topic)
    IN  IF hits = {} THEN [raised |-> "", db |-> db, result |-> result]
        ELSE LET i     == CHOOSE k \in hits : \A j \in hits : k <= j
                 old   == db.weak_topics[i]
                 new   == WeakRowAfter(old, solved, t)
                 rows  == [db.weak_topics EXCEPT ![i] = new]
                 up    == new.current_level > old.current_level
                 res1  == IF up THEN [result EXCEPT !.weak_topics_improved =
                                         Append(@, topic)]
                          ELSE result
                 res2  == IF up /\ ~new.is_active
                          THEN [res1 EXCEPT !.weak_topics_resolved =
                                   Append(@, topic)]
                          ELSE res1
             IN  IF WeakTopicsUnique(rows)
                 THEN [raised |-> "", db |-> [db EXCEPT !.weak_topics = rows],
                       result |-> res2]
                 ELSE [raised |-> "IntegrityError", db |-> db, result |-> res2]

\* the UserTopicRating row of (uid, topic), created at the user's rating when
\* absent (lines 170-184)
TopicRatingRow(db, uid, topic) ==
    LET hits == {r \in db.topic_ratings : r.user_id = uid /\ r.topic = topic}
    IN  IF hits # {} THEN CHOOSE r \in hits : TRUE
        ELSE [user_id |-> uid, topic |-> topic, rating |-> db.users[uid].rating,
              problems_attempted |-> 0, problems_solved |-> 0]

\* a WeakTopic that starts at its target level
NewWeakTopicAtTarget(uid, topic, rating, t) ==
    [user_id |-> uid, topic |-> topic,
     current_level |-> rating + 10, target_level |-> rating + 10,
     consecutive_solves |-> 0, total_attempts |-> 0, total_failures |-> 0,
     is_active |-> TRUE, detected_at |-> t, last_attempt_at |-> Null,
     resolved_at |-> Null]

\* WeakTopic(...) as line 209 builds it
NewWeakTopic(uid, topic, rating, t) ==
    [user_id |-> uid, topic |-> topic,
     current_level |-> Max(10, rating - 20), target_level |-> rating + 10,
     consecutive_solves |-> 0, total_attempts |-> 0, total_failures |-> 0,
     is_active |-> TRUE, detected_at |-> t, last_attempt_at |-> Null,
     resolved_at |-> Null]

\* a detection that needs more failures than solves
FailureRateStrict(row) == 2 * row.problems_solved < row.problems_attempted

\* failure_rate >= 0.5 with failure_rate = 1 - solved / attempted
FailureRateHigh(row) == 2 * row.problems_solved <= row.problems_attempted

\* a regular-path update with neither the existing_weak query nor the
\* unique constraint on weak_topics
ProcessRegularUnchecked(db, uid, topic, solved, result, t) ==
    LET before  == TopicRatingRow(db, uid, topic)
        tried   == [before EXCEPT !.problems_attempted = @ + 1]
        detect  == ~solved /\ tried.problems_attempted >= 2
                   /\ FailureRateHigh(tried)
        after   == IF solved
                   THEN [tried EXCEPT !.problems_solved = @ + 1,
                                      !.rating = Min(tried.rating + 5, 3000)]
                   ELSE [tried EXCEPT !.rating = Max(tried.rating - 3, 100)]
        rows    == IF detect
                   THEN Append(db.weak_topics,
                               NewWeakTopic(uid, topic, db.users[uid].rating, t))
                   ELSE db.weak_topics
        ratings == {r \in db.topic_ratings :
                        ~(r.user_id = uid /\ r.topic = topic)} \cup {after}
    IN  [raised |-> "",
         db |-> [db EXCEPT !.weak_topics = rows, !.topic_ratings = ratings],
         result |-> result]

\* _process_regular_topic_result
ProcessRegularTopicResult(db, uid, topic, solved, result, t) ==
    LET before  == TopicRatingRow(db, uid, topic)
        tried   == [before EXCEPT !.problems_attempted = @ + 1]
        detect  == ~solved /\ tried.problems_attempted >= 2
                   /\ FailureRateHigh(tried)
                   /\ ActiveWeakRows(db.weak_topics, uid, topic) = {}
        after   == IF solved
                   THEN [tried EXCEPT !.problems_solved = @ + 1,
                                      !.rating = Min(tried.rating + 5, 3000)]
                   ELSE [tried EXCEPT !.rating = Max(tried.rating - 3, 100)]
        rows    == IF detect
                   THEN Append(db.weak_topics,
                               NewWeakTopic(uid, topic, db.users[uid].rating, t))
                   ELSE db.weak_topics
        ratings == {r \in db.topic_ratings :
                        ~(r.user_id = uid /\ r.topic = topic)} \cup {after}
        res     == IF detect
                   THEN [result EXCEPT !.new_weak_topics = Append(@, topic)]
                   ELSE result
    IN  IF WeakTopicsUnique(rows) /\ TopicRatingsUnique(ratings)
        THEN [raised |-> "",
              db |-> [db EXCEPT !.weak_topics = rows, !.topic_ratings = ratings],
              result |-> res]
        ELSE [raised |-> "IntegrityError", db |-> db, result |-> res]

\* the loop body of calculate_contest_result (lines 66-81) for problem p
ProcessProblem(db, uid, p, result, t) ==
    LET solved == p.status = "solved"
        noted  == IF solved
                  THEN [result EXCEPT !.topics_passed = Append(@, p.topic)]
                  ELSE [result EXCEPT !.topics_failed = Append(@, p.topic)]
    IN  IF p.is_weak_topic_problem
        THEN ProcessWeakTopicResult(db, uid, p.topic, solved, noted, t)
        ELSE ProcessRegularTopicResult(db, uid, p.topic, solved, noted, t)

\* the loop of lines 66-81 from problem i on; an exception ends it with the
\* commits made so far
RECURSIVE ProcessProblems(_, _, _, _, _, _)
RECURSIVE NextProblem(_, _, _, _, _)

\* after problem i left one = [raised, db, result]
NextProblem(uid, problems, i, t, one) ==
    IF one.raised # "" THEN one
    ELSE ProcessProblems(one.db, uid, problems, i + 1, one.result, t)

ProcessProblems(db, uid, problems, i, result, t) ==
    IF i > Len(problems) THEN [raised |-> "", db |-> db, result |-> result]
    ELSE NextProblem(uid, problems, i, t,
                     ProcessProblem(db, uid, problems[i], result, t))

\* an enum that has the member line 48 names
FilterNeverRaises(problems) == FALSE

\* line 48 evaluates SubmissionStatus.PARTIAL once per problem of the contest:
\* an AttributeError unless the enum of models.py has that member
FailedFilterRaises(problems) ==
    problems # <<>> /\ "partial" \notin SubmissionStatus

\* lines 83-110, after the loop left looped = [raised, db, result]
ApplyContestResult(cid, looped) ==
    LET c        == looped.db.contests[cid]
        uid      == c.user_id
        problems == c.problems
        n_solved == Cardinality({i \in DOMAIN problems :
                                    problems[i].status = "solved"})
        change   == IF n_solved = Len(problems) THEN RATING_INCREASE ELSE 0
        rating   == looped.db.users[uid].rating
    IN  IF looped.raised # "" THEN looped
        ELSE [raised |-> "",
              db |-> [looped.db EXCEPT
                        !.users[uid].rating = rating + change,
                        !.users[uid].total_contests = @ + 1,
                        !.users[uid].total_problems_solved = @ + n_solved,
                        !.users[uid].total_problems_attempted = @ + Len(problems),
                        !.contests[cid].rating_change = change,
                        !.contests[cid].problems_solved = n_solved],
              result |-> [looped.result EXCEPT
                        !.rating_change = change,
                        !.new_rating = rating + change,
                        !.problems_solved = n_solved,
                        !.total_problems = Len(problems)]]

\* a rating engine whose enum has the member line 48 names and that charges
\* the overall rating 5 for every failed problem
CalculateContestResultPenalty(db, cid, t) ==
    LET c      == db.contests[cid]
        failed == Cardinality({i \in DOMAIN c.problems :
                                  c.problems[i].status = "failed"})
        run    == ApplyContestResult(cid,
                      ProcessProblems(db, c.user_id, c.problems, 1,
                                      NewResult(db.users[c.user_id].rating), t))
    IN  [run EXCEPT !.db.users[c.user_id].rating = @ - 5 * failed]

\* calculate_contest_result
CalculateContestResult(db, cid, t) ==
    LET c == db.contests[cid]
    IN  IF FailedFilterRaises(c.problems)
        THEN [raised |-> "AttributeError", db |-> db,
              result |-> NewResult(db.users[c.user_id].rating)]
        ELSE ApplyContestResult(cid,
                 ProcessProblems(db, c.user_id, c.problems, 1,
                                 NewResult(db.users[c.user_id].rating), t))

(***************************************************************************)
(* contest_service.py                                                      *)
(***************************************************************************)
HISTORY_DAYS == 30

MinutesPerDay == 1440

\* a create that does not look for the user's active contest
NoActiveContests(cs, uid) == {}

\* the query Contest(user_id, status == ACTIVE).first(): contest ids
ActiveContests(cs, uid) ==
    {c \in DOMAIN cs : cs[c].user_id = uid /\ cs[c].status = "active"}

\* a window that only remembers the problems the user solved
RecentProblemIdsSolved(history, uid, t) ==
    {h.problem_id : h \in {r \in history :
        r.user_id = uid /\ r.times_solved > 0
        /\ r.last_attempted_at >= t - HISTORY_DAYS * MinutesPerDay}}

\* _get_recent_problem_ids
RecentProblemIds(history, uid, t) ==
    {h.problem_id : h \in {r \in history :
        r.user_id = uid
        /\ r.last_attempted_at >= t - HISTORY_DAYS * MinutesPerDay}}

\* ContestProblem(...) as line 114 builds it
NewContestProblem(item) ==
    [problem_id |-> item.problem.id, topic |-> item.topic,
     difficulty |-> item.problem.difficulty,
     is_weak_topic_problem |-> item.is_weak_topic_problem,
     status |-> "pending", started_at |-> Null, submitted_at |-> Null,
     time_taken_seconds |-> Null, attempts |-> 0]

\* a contest whose target is the rating itself
NewContestFlat(uid, rating, num_problems, time_limit, items, t) ==
    [user_id |-> uid, status |-> "active", rating_at_start |-> rating,
     rating_change |-> 0, num_problems |-> num_problems,
     target_difficulty |-> rating, time_limit_minutes |-> time_limit,
     started_at |-> t, ended_at |-> Null, problems_solved |-> 0,
     total_time_seconds |-> 0,
     problems |-> [i \in 1..Len(items) |-> NewContestProblem(items[i])]]

\* a contest that snapshots its target as rating_at_start
NewContestStartAtTarget(uid, rating, num_problems, time_limit, items, t) ==
    [user_id |-> uid, status |-> "active", rating_at_start |-> rating + 10,
     rating_change |-> 0, num_problems |-> num_problems,
     target_difficulty |-> rating + 10, time_limit_minutes |-> time_limit,
     started_at |-> t, ended_at |-> Null, problems_solved |-> 0,
     total_time_seconds |-> 0,
     problems |-> [i \in 1..Len(items) |-> NewContestProblem(items[i])]]

\* Contest(...) as line 87 builds it, with its problems
NewContest(uid, rating, num_problems, time_limit, items, t) ==
    [user_id |-> uid, status |-> "active", rating_at_start |-> rating,
     rating_change |-> 0, num_problems |-> num_problems,
     target_difficulty |-> rating + 10, time_limit_minutes |-> time_limit,
     started_at |-> t, ended_at |-> Null, problems_solved |-> 0,
     total_time_seconds |-> 0,
     problems |-> [i \in 1..Len(items) |-> NewContestProblem(items[i])]]

\* the query ContestProblem(contest_id, problem_id).first(): 0 when absent
ProblemIndex(cs, cid, pid) ==
    LET hits == {i \in DOMAIN cs[cid].problems :
                    cs[cid].problems[i].problem_id = pid}
    IN  IF hits = {} THEN 0 ELSE CHOOSE i \in hits : \A j \in hits : i <= j

\* elapsed.total_seconds() > contest.time_limit_minutes * 60
TimeLimitExceeded(c, t) == (t - c.started_at) * 60 > c.time_limit_minutes * 60

\* _update_problem_history
UpdateProblemHistory(history, uid, pid, solved, time_seconds, t) ==
    LET hits == {h \in history : h.user_id = uid /\ h.problem_id = pid}
    IN  IF hits # {}
        THEN LET h    == CHOOSE r \in hits : TRUE
                 best == IF solved /\ time_seconds # Null /\ time_seconds # 0
                            /\ (h.best_time_seconds = Null
                                \/ time_seconds < h.best_time_seconds)
                         THEN time_seconds ELSE h.best_time_seconds
             IN  (history \ {h}) \cup
                 {[h EXCEPT !.times_attempted = @ + 1,
                            !.last_attempted_at = t,
                            !.times_solved = IF solved THEN @ + 1 ELSE @,
                            !.best_time_seconds = best]}
        ELSE history \cup
             {[user_id |-> uid, problem_id |-> pid, times_attempted |-> 1,
               times_solved |-> IF solved THEN 1 ELSE 0,
               best_time_seconds |-> IF solved THEN time_seconds ELSE Null,
               last_attempted_at |-> t]}

\* end_contest up to its first commit (lines 330-347)
CloseContest(c, t) ==
    LET closed == [i \in DOMAIN c.problems |->
                     IF c.problems[i].status \in {"pending", "skipped"}
                     THEN [c.problems[i] EXCEPT !.status = "failed"]
                     ELSE c.problems[i]]
        times  == [i \in DOMAIN closed |->
                     IF closed[i].status = "solved"
                        /\ closed[i].time_taken_seconds # Null
                     THEN closed[i].time_taken_seconds ELSE 0]
    IN  [c EXCEPT !.problems = closed, !.status = "completed", !.ended_at = t,
                  !.total_time_seconds = SumSeq(times)]

\* end_contest on an ACTIVE contest: [raised, db, result]
EndContestRun(db, cid, t) ==
    LET committed == [db EXCEPT !.contests[cid] = CloseContest(@, t)]
    IN  CalculateContestResult(committed, cid, t)

(***************************************************************************)
(* Replies and table updates                                               *)
(***************************************************************************)
Reply(op, id, error, result) ==
    [op |-> op, id |-> id, error |-> error, result |-> result]

TablesUnchanged ==
    UNCHANGED <<users, topic_ratings, weak_topics, contests, problem_history>>

\* the tables after a run of the rating engine
Store(db) ==
    /\ users' = db.users
    /\ topic_ratings' = db.topic_ratings
    /\ weak_topics' = db.weak_topics
    /\ contests' = db.contests

(***************************************************************************)
(* contest_service.py: the operations                                      *)
(***************************************************************************)
\* [wt.topic for wt in get_user_weak_topics(...)]: .all() has no ORDER BY
WeakTopicLists(rows, uid, include_weak) ==
    IF include_weak
    THEN {[i \in DOMAIN order |-> rows[order[i]].topic]
          : order \in Perms(UserWeakRows(rows, uid))}
    ELSE {<<>>}

\* lines 103-112: a weak item's target_difficulty becomes the row's level
AdjustItem(item, rows, uid) ==
    LET hits == ActiveWeakRows(rows, uid, item.topic)
    IN  IF item.is_weak_topic_problem /\ hits # {}
        THEN [item EXCEPT !.target_difficulty =
                 rows[CHOOSE k \in hits : \A j \in hits : k <= j].current_level]
        ELSE item

\* a create that stores whatever the selector returned
CreateContestPartial(uid, num_problems, time_limit, include_weak) ==
    /\ UNCHANGED <<reflections, requests, catalog, now, users, topic_ratings, weak_topics,
                   problem_history>>
    /\ IF ActiveContests(contests, uid) # {}
       THEN /\ resp' = Reply("create", uid, "AlreadyActive", <<>>)
            /\ UNCHANGED contests
       ELSE \E wl \in WeakTopicLists(weak_topics, uid, include_weak) :
            \E out \in SelectProblemsForContest(
                          catalog, users[uid].rating + 10, num_problems, wl,
                          RecentProblemIds(problem_history, uid, now),
                          include_weak) :
              IF out.raised
              THEN /\ resp' = Reply("create", uid, "IndexError", <<>>)
                   /\ UNCHANGED contests
              ELSE /\ contests' = Append(contests,
                          NewContest(uid, users[uid].rating, num_problems,
                                     time_limit, out.items, now))
                   /\ resp' = Reply("create", uid, "", <<>>)

CreateContest(uid, num_problems, time_limit, include_weak) ==
    /\ UNCHANGED <<reflections, requests, catalog, now, users, topic_ratings, weak_topics,
                   problem_history>>
    /\ IF ActiveContests(contests, uid) # {}
       THEN /\ resp' = Reply("create", uid, "AlreadyActive", <<>>)
            /\ UNCHANGED contests
       ELSE \E wl \in WeakTopicLists(weak_topics, uid, include_weak) :
            \E out \in SelectProblemsForContest(
                          catalog, users[uid].rating + 10, num_problems, wl,
                          RecentProblemIds(problem_history, uid, now),
                          include_weak) :
              IF out.raised
              THEN /\ resp' = Reply("create", uid, "IndexError", <<>>)
                   /\ UNCHANGED contests
              ELSE IF Len(out.items) < num_problems
              THEN /\ resp' = Reply("create", uid, "NotEnoughProblems", <<>>)
                   /\ UNCHANGED contests
              ELSE LET items == [i \in DOMAIN out.items |->
                                   AdjustItem(out.items[i], weak_topics, uid)]
                   IN  /\ contests' = Append(contests,
                              NewContest(uid, users[uid].rating, num_problems,
                                         time_limit, items, now))
                       /\ resp' = Reply("create", uid, "", <<>>)

StartProblem(cid, pid) ==
    /\ UNCHANGED <<reflections, requests, catalog, now, users, topic_ratings, weak_topics,
                   problem_history>>
    /\ IF cid \notin DOMAIN contests \/ ProblemIndex(contests, cid, pid) = 0
       THEN /\ resp' = Reply("start_problem", cid, "ProblemNotFound", <<>>)
            /\ UNCHANGED contests
       ELSE LET i == ProblemIndex(contests, cid, pid)
            IN  /\ contests' =
                      IF contests[cid].problems[i].started_at = Null
                      THEN [contests EXCEPT ![cid].problems[i].started_at = now]
                      ELSE contests
                /\ resp' = Reply("start_problem", cid, "", <<>>)

\* lines 206-209: the auto-end of an expired contest, run = [raised, db, result]
AutoEndReply(cid, run) ==
    /\ Store(run.db)
    /\ UNCHANGED problem_history
    /\ resp' = Reply("submit", cid, IF run.raised # "" THEN run.raised
                                    ELSE "TimeLimitExceeded", <<>>)

\* a submit that counts the problem in the user's aggregate counters at once
SubmitProblemCounted(cid, pid, solved, time_taken_seconds) ==
    /\ UNCHANGED <<reflections, requests, catalog, now>>
    /\ IF cid \notin DOMAIN contests
       THEN /\ resp' = Reply("submit", cid, "ContestNotFound", <<>>)
            /\ TablesUnchanged
       ELSE IF contests[cid].status # "active"
       THEN /\ resp' = Reply("submit", cid, "NotActive", <<>>)
            /\ TablesUnchanged
       ELSE IF TimeLimitExceeded(contests[cid], now)
       THEN AutoEndReply(cid, EndContestRun(Database, cid, now))
       ELSE IF ProblemIndex(contests, cid, pid) = 0
       THEN /\ resp' = Reply("submit", cid, "ProblemNotFound", <<>>)
            /\ TablesUnchanged
       ELSE LET i     == ProblemIndex(contests, cid, pid)
                old   == contests[cid].problems[i]
                taken == IF time_taken_seconds # Null THEN time_taken_seconds
                         ELSE IF old.started_at # Null
                         THEN (now - old.started_at) * 60
                         ELSE old.time_taken_seconds
                new   == [old EXCEPT
                            !.submitted_at = now,
                            !.attempts = @ + 1,
                            !.time_taken_seconds = taken,
                            !.status = IF solved THEN "solved" ELSE "failed"]
            IN  /\ contests' = [contests EXCEPT ![cid].problems[i] = new]
                /\ problem_history' =
                      UpdateProblemHistory(problem_history,
                          contests[cid].user_id, pid, solved, taken, now)
                /\ users' = [users EXCEPT
                      ![contests[cid].user_id].total_problems_attempted = @ + 1]
                /\ UNCHANGED <<topic_ratings, weak_topics>>
                /\ resp' = Reply("submit", cid, "", <<>>)

SubmitProblem(cid, pid, solved, time_taken_seconds) ==
    /\ UNCHANGED <<reflections, requests, catalog, now>>
    /\ IF cid \notin DOMAIN contests
       THEN /\ resp' = Reply("submit", cid, "ContestNotFound", <<>>)
            /\ TablesUnchanged
       ELSE IF contests[cid].status # "active"
       THEN /\ resp' = Reply("submit", cid, "NotActive", <<>>)
            /\ TablesUnchanged
       ELSE IF TimeLimitExceeded(contests[cid], now)
       THEN AutoEndReply(cid, EndContestRun(Database, cid, now))
       ELSE IF ProblemIndex(contests, cid, pid) = 0
       THEN /\ resp' = Reply("submit", cid, "ProblemNotFound", <<>>)
            /\ TablesUnchanged
       ELSE LET i     == ProblemIndex(contests, cid, pid)
                old   == contests[cid].problems[i]
                taken == IF time_taken_seconds # Null THEN time_taken_seconds
                         ELSE IF old.started_at # Null
                         THEN (now - old.started_at) * 60
                         ELSE old.time_taken_seconds
                new   == [old EXCEPT
                            !.submitted_at = now,
                            !.attempts = @ + 1,
                            !.time_taken_seconds = taken,
                            !.status = IF solved THEN "solved" ELSE "failed"]
            IN  /\ contests' = [contests EXCEPT ![cid].problems[i] = new]
                /\ problem_history' =
                      UpdateProblemHistory(problem_history,
                          contests[cid].user_id, pid, solved, taken, now)
                /\ UNCHANGED <<users, topic_ratings, weak_topics>>
                /\ resp' = Reply("submit", cid, "", <<>>)

SkipProblem(cid, pid) ==
    /\ UNCHANGED <<reflections, requests, catalog, now, users, topic_ratings, weak_topics,
                   problem_history>>
    /\ IF cid \notin DOMAIN contests \/ ProblemIndex(contests, cid, pid) = 0
       THEN /\ resp' = Reply("skip", cid, "ProblemNotFound", <<>>)
            /\ UNCHANGED contests
       ELSE LET i == ProblemIndex(contests, cid, pid)
            IN  /\ contests' = [contests EXCEPT
                      ![cid].problems[i].status = "skipped",
                      ![cid].problems[i].submitted_at = now]
                /\ resp' = Reply("skip", cid, "", <<>>)

\* what end_contest stores and returns, run = [raised, db, result]
EndReply(cid, run) ==
    /\ Store(run.db)
    /\ resp' = IF run.raised # "" THEN Reply("end", cid, run.raised, <<>>)
               ELSE Reply("end", cid, "", <<run.result>>)

\* an end that does not look at the contest's status
EndAnyContest(cid) ==
    /\ UNCHANGED <<reflections, requests, catalog, now, problem_history>>
    /\ IF cid \notin DOMAIN contests
       THEN /\ resp' = Reply("end", cid, "ContestNotFound", <<>>)
            /\ UNCHANGED <<users, topic_ratings, weak_topics, contests>>
       ELSE EndReply(cid, EndContestRun(Database, cid, now))

EndContest(cid) ==
    /\ UNCHANGED <<reflections, requests, catalog, now, problem_history>>
    /\ IF cid \notin DOMAIN contests
       THEN /\ resp' = Reply("end", cid, "ContestNotFound", <<>>)
            /\ UNCHANGED <<users, topic_ratings, weak_topics, contests>>
       ELSE IF contests[cid].status # "active"
       THEN /\ resp' = Reply("end", cid, "NotActive", <<>>)
            /\ UNCHANGED <<users, topic_ratings, weak_topics, contests>>
       ELSE EndReply(cid, EndContestRun(Database, cid, now))

\* an abandon that counts the contest in the user's aggregate counters
AbandonCounted(cid) ==
    /\ UNCHANGED <<reflections, requests, catalog, now, topic_ratings, weak_topics, problem_history>>
    /\ IF cid \notin DOMAIN contests
       THEN /\ resp' = Reply("abandon", cid, "ContestNotFound", <<>>)
            /\ UNCHANGED <<contests, users>>
       ELSE IF contests[cid].status # "active"
       THEN /\ resp' = Reply("abandon", cid, "NotActive", <<>>)
            /\ UNCHANGED <<contests, users>>
       ELSE /\ contests' = [contests EXCEPT ![cid].status = "abandoned",
                                            ![cid].ended_at = now]
            /\ users' = [users EXCEPT
                            ![contests[cid].user_id].total_contests = @ + 1]
            /\ resp' = Reply("abandon", cid, "", <<>>)

\* an abandon that does not look at the contest's status
AbandonAnyContest(cid) ==
    /\ UNCHANGED <<reflections, requests, catalog, now, users, topic_ratings, weak_topics,
                   problem_history>>
    /\ IF cid \notin DOMAIN contests
       THEN /\ resp' = Reply("abandon", cid, "ContestNotFound", <<>>)
            /\ UNCHANGED contests
       ELSE /\ contests' = [contests EXCEPT ![cid].status = "abandoned",
                                            ![cid].ended_at = now]
            /\ resp' = Reply("abandon", cid, "", <<>>)

AbandonContest(cid) ==
    /\ UNCHANGED <<reflections, requests, catalog, now, users, topic_ratings, weak_topics,
                   problem_history>>
    /\ IF cid \notin DOMAIN contests
       THEN /\ resp' = Reply("abandon", cid, "ContestNotFound", <<>>)
            /\ UNCHANGED contests
       ELSE IF contests[cid].status # "active"
       THEN /\ resp' = Reply("abandon", cid, "NotActive", <<>>)
            /\ UNCHANGED contests
       ELSE /\ contests' = [contests EXCEPT ![cid].status = "abandoned",
                                            ![cid].ended_at = now]
            /\ resp' = Reply("abandon", cid, "", <<>>)

\* time passes between two calls
AdvanceClock(t) ==
    /\ t > now
    /\ now' = t
    /\ UNCHANGED <<reflections, requests, catalog, users, topic_ratings, weak_topics, contests,
                   problem_history>>
    /\ resp' = Reply("clock", 0, "", <<>>)

(***************************************************************************)
(* Inputs of the lifecycle specifications                                  *)
(***************************************************************************)
MaxContests == 2

MaxAttempts == 1

\* num_problems of the contests of Spec and of SpecContest
SmallContest == 1

ContestSize == 2

UserIds == {1, 2}

TimeLimitInputs == {120}

TimeTakenInputs == {Null, 90}

\* the instants at which calls arrive, in minutes
ClockValues == {0, 121}

\* records of the file behind load_problems
ProblemP1 == [id |-> "p1", url |-> "u1", difficulty |-> 30,
              pattern_id |-> "dp_general", primary_skills |-> <<>>]

ProblemP2 == [id |-> "p2", url |-> "u2", difficulty |-> 28,
              pattern_id |-> "", primary_skills |-> <<"Binary Search">>]

ProblemP3 == [id |-> "p3", url |-> "u3", difficulty |-> 60,
              pattern_id |-> "dp_general", primary_skills |-> <<>>]

ProblemNoId == [id |-> "", url |-> "u4", difficulty |-> 30,
                pattern_id |-> "dp_general", primary_skills |-> <<>>]

\* a file with one problem near the first target difficulty
RawCatalog == <<ProblemP1, ProblemP3, ProblemNoId>>

\* a file with two problems near the first target difficulty
RawCatalogTwo == <<ProblemP1, ProblemP2, ProblemNoId>>

ProblemIdInputs == {"p1", "p2", "p3"}

\* the attempts counter a submit would increment
AttemptsOf(cid, pid) ==
    IF cid \in DOMAIN contests /\ ProblemIndex(contests, cid, pid) # 0
    THEN contests[cid].problems[ProblemIndex(contests, cid, pid)].attempts
    ELSE 0

InitTables ==
    /\ users = [u \in UserIds |-> NewUser]
    /\ topic_ratings = {}
    /\ weak_topics = <<>>
    /\ contests = <<>>
    /\ problem_history = {}
    /\ now = 0
    /\ resp = Reply("none", 0, "", <<>>)
    /\ requests = <<>>
    /\ reflections = {}

(***************************************************************************)
(* Spec: a user's contests one after the other, the six operations called  *)
(* in any order at one instant                                             *)
(***************************************************************************)
Init ==
    /\ catalog = LoadProblems(RawCatalog)
    /\ InitTables

Next ==
    \/ \E u \in UserIds, tl \in TimeLimitInputs, w \in BOOLEAN :
          Len(contests) < MaxContests /\ CreateContest(u, SmallContest, tl, w)
    \/ \E c \in DOMAIN contests, p \in ProblemIdInputs : StartProblem(c, p)
    \/ \E c \in DOMAIN contests, p \in ProblemIdInputs, s \in BOOLEAN :
          AttemptsOf(c, p) < MaxAttempts /\ SubmitProblem(c, p, s, Null)
    \/ \E c \in DOMAIN contests, p \in ProblemIdInputs : SkipProblem(c, p)
    \/ \E c \in DOMAIN contests : EndContest(c)
    \/ \E c \in DOMAIN contests : AbandonContest(c)

Spec == Init /\ [][Next]_vars

(***************************************************************************)
(* SpecContest: one contest of two problems, with time passing             *)
(***************************************************************************)
InitContest ==
    /\ catalog = LoadProblems(RawCatalogTwo)
    /\ InitTables

NextContest ==
    \/ \E u \in {1}, tl \in TimeLimitInputs, w \in BOOLEAN :
          Len(contests) < 1 /\ CreateContest(u, ContestSize, tl, w)
    \/ \E c \in DOMAIN contests, p \in ProblemIdInputs : StartProblem(c, p)
    \/ \E c \in DOMAIN contests, p \in ProblemIdInputs, s \in BOOLEAN,
          tt \in TimeTakenInputs :
          AttemptsOf(c, p) < MaxAttempts /\ SubmitProblem(c, p, s, tt)
    \/ \E c \in DOMAIN contests, p \in ProblemIdInputs : SkipProblem(c, p)
    \/ \E c \in DOMAIN contests : EndContest(c)
    \/ \E c \in DOMAIN contests : AbandonContest(c)
    \/ \E t \in ClockValues : AdvanceClock(t)

SpecContest == InitContest /\ [][NextContest]_vars

(***************************************************************************)
(* SpecLadder: one user's contests one after the other, each created,      *)
(* solved and ended                                                        *)
(***************************************************************************)
MaxLadder == 9

LadderProblem(d) ==
    [id |-> "l" \o ToString(d), url |-> "u", difficulty |-> d,
     pattern_id |-> "dp_general", primary_skills |-> <<>>]

\* a problem at each target difficulty the user can climb to
LadderCatalog == [k \in 1..MaxLadder |-> LadderProblem(20 + 10 * k)]

LadderIds == {LadderCatalog[k].id : k \in DOMAIN LadderCatalog}

InitLadder ==
    /\ catalog = LoadProblems(LadderCatalog)
    /\ InitTables

NextLadder ==
    \/ \E tl \in TimeLimitInputs :
          Len(contests) < MaxLadder /\ CreateContest(1, SmallContest, tl, FALSE)
    \/ \E c \in DOMAIN contests, p \in LadderIds :
          AttemptsOf(c, p) < MaxAttempts /\ SubmitProblem(c, p, TRUE, Null)
    \/ \E c \in DOMAIN contests : EndContest(c)

SpecLadder == InitLadder /\ [][NextLadder]_vars

(***************************************************************************)
(* SpecRating: the per-problem update functions of the rating engine,      *)
(* called for one user and one topic with any outcomes in any order        *)
(***************************************************************************)
MaxTopicAttempts == 3

MaxWeakAttempts == 8

RatingTopics == {"dp_general"}

\* counters the next call would increment
TopicAttempts(uid, topic) ==
    TopicRatingRow(Database, uid, topic).problems_attempted

WeakAttempts(uid, topic) ==
    LET hits == ActiveWeakRows(weak_topics, uid, topic)
    IN  IF hits = {} THEN 0
        ELSE weak_topics[CHOOSE k \in hits : TRUE].total_attempts

RateWeak(uid, topic, solved) ==
    LET run == ProcessWeakTopicResult(Database, uid, topic, solved,
                                      NewResult(users[uid].rating), now)
    IN  /\ Store(run.db)
        /\ resp' = [op |-> IF solved THEN "weak_solved" ELSE "weak_failed",
                    id |-> uid, error |-> run.raised, result |-> <<run.result>>,
                    topic |-> topic]
        /\ UNCHANGED <<reflections, requests, catalog, problem_history, now>>

RateRegular(uid, topic, solved) ==
    LET run == ProcessRegularTopicResult(Database, uid, topic, solved,
                                         NewResult(users[uid].rating), now)
    IN  /\ Store(run.db)
        /\ resp' = [op |-> IF solved THEN "regular_solved"
                                 ELSE "regular_failed",
                    id |-> uid, error |-> run.raised, result |-> <<run.result>>,
                    topic |-> topic]
        /\ UNCHANGED <<reflections, requests, catalog, problem_history, now>>

NextRating ==
    \/ \E t \in RatingTopics, s \in BOOLEAN :
          WeakAttempts(1, t) < MaxWeakAttempts /\ RateWeak(1, t, s)
    \/ \E t \in RatingTopics, s \in BOOLEAN :
          TopicAttempts(1, t) < MaxTopicAttempts /\ RateRegular(1, t, s)

SpecRating == Init /\ [][NextRating]_vars

(***************************************************************************)
(* SpecSelect: select_problems_for_contest on drawn inputs                 *)
(***************************************************************************)
MaxSelect == 3

SelectTargets == {30}

Q(id, topic, difficulty) ==
    [id |-> id, url |-> "u", difficulty |-> difficulty,
     pattern_id |-> topic, primary_skills |-> <<"Greedy">>]

\* more topics than the loop has attempts for two problems: nineteen topics
\* far from the target, then two topics near it
WideTopics == 19

WideCatalog ==
    [k \in 1..WideTopics |->
        Q("x" \o ToString(k), "far_" \o ToString(k), 90)] \o
    <<Q("b1", "graph_traversal", 30), Q("b2", "graph_traversal", 42),
      Q("a1", "dp_general", 31)>>

SelectCatalogs ==
    { <<>>, WideCatalog,
      <<Q("q1", "dp_general", 30)>>,
      <<Q("q1", "dp_general", 30), Q("q2", "dp_general", 36),
        Q("q3", "graph_traversal", 20)>>,
      <<Q("q1", "dp_general", 30), Q("q3", "graph_traversal", 20),
        Q("q4", "graph_traversal", 44), Q("q5", "", 31)>>,
      <<Q("q1", "dp_general", 30), Q("q2", "dp_general", 36),
        Q("q3", "graph_traversal", 20), Q("q5", "", 31),
        Q("q6", "tree_general", 5)>> }

SelectWeakLists ==
    { <<>>, <<"graph_traversal">>, <<"graph_traversal", "dp_general">>,
      <<"tree_general", "skill_greedy">>, <<"math_nt">> }

SelectExcluded == SUBSET {"q1", "q3"}

InitSelect ==
    /\ \E raw \in SelectCatalogs : catalog = LoadProblems(raw)
    /\ InitTables

Select(target, num_problems, weak_list, excluded, include_weak) ==
    /\ \E out \in SelectProblemsForContest(catalog, target, num_problems,
                                           weak_list, excluded, include_weak) :
          resp' = [op |-> "select", id |-> 0,
                   error |-> IF out.raised THEN "IndexError" ELSE "",
                   result |-> out.items,
                   topical |-> out.topical,
                   input |-> [target_difficulty |-> target,
                              num_problems |-> num_problems,
                              weak_topics |-> weak_list,
                              excluded |-> excluded,
                              include_weak_topics |-> include_weak]]
    /\ UNCHANGED <<reflections, requests, catalog, users, topic_ratings, weak_topics, contests,
                   problem_history, now>>

\* one call per drawn catalog: the function reads nothing but its arguments
NextSelect ==
    \E n \in 1..MaxSelect, wl \in SelectWeakLists, ex \in SelectExcluded,
       w \in BOOLEAN, tg \in SelectTargets :
          resp.op = "none" /\ Select(tg, n, wl, ex, w)

SpecSelect == InitSelect /\ [][NextSelect]_vars

(***************************************************************************)
(* SpecRemedy: one user whose topic results open and move a weak topic,    *)
(* and the contests created for that user meanwhile                        *)
(***************************************************************************)
MaxRemedyAttempts == 4

\* dp_general holds a problem near level 10 and one far above it
RemedyCatalog ==
    <<Q("r1", "dp_general", 40), Q("r2", "dp_general", 12),
      Q("r3", "graph_traversal", 30)>>

RemedyIds == {RemedyCatalog[k].id : k \in DOMAIN RemedyCatalog}

InitRemedy ==
    /\ catalog = LoadProblems(RemedyCatalog)
    /\ InitTables

NextRemedy ==
    \/ \E t \in RatingTopics, s \in BOOLEAN :
          WeakAttempts(1, t) < MaxRemedyAttempts /\ RateWeak(1, t, s)
    \/ \E t \in RatingTopics, s \in BOOLEAN :
          TopicAttempts(1, t) < MaxTopicAttempts /\ RateRegular(1, t, s)
    \/ \E tl \in TimeLimitInputs, w \in BOOLEAN :
          Len(contests) < MaxContests /\ CreateContest(1, SmallContest, tl, w)
    \/ \E c \in DOMAIN contests, p \in RemedyIds, s \in BOOLEAN :
          AttemptsOf(c, p) < MaxAttempts /\ SubmitProblem(c, p, s, Null)
    \/ \E c \in DOMAIN contests : AbandonContest(c)

SpecRemedy == InitRemedy /\ [][NextRemedy]_vars

(***************************************************************************)
(* SpecWeakEnd: a user's contests with weak-topic inclusion, created,       *)
(* submitted and ended one after the other; the rating functions stand for *)
(* the ends of earlier contests, so they run while no contest is ACTIVE    *)
(***************************************************************************)
NextWeakEnd ==
    \/ \E t \in RatingTopics, s \in BOOLEAN :
          /\ WeakAttempts(1, t) < MaxRemedyAttempts
          /\ ActiveContests(contests, 1) = {}
          /\ RateWeak(1, t, s)
    \/ \E t \in RatingTopics, s \in BOOLEAN :
          /\ TopicAttempts(1, t) < MaxTopicAttempts
          /\ ActiveContests(contests, 1) = {}
          /\ RateRegular(1, t, s)
    \/ \E tl \in TimeLimitInputs :
          Len(contests) < MaxContests /\ CreateContest(1, SmallContest, tl, TRUE)
    \/ \E c \in DOMAIN contests, p \in RemedyIds, s \in BOOLEAN :
          AttemptsOf(c, p) < MaxAttempts /\ SubmitProblem(c, p, s, Null)
    \/ \E c \in DOMAIN contests : EndContest(c)

SpecWeakEnd == InitRemedy /\ [][NextWeakEnd]_vars

(***************************************************************************)
(* SpecStarve: a user with two weak topics who keeps creating, submitting   *)
(* and ending contests with weak-topic inclusion; the topics become weak    *)
(* before the first contest and each call is made when the service would   *)
(* accept it                                                               *)
(***************************************************************************)
StarveTopics == {"dp_general", "graph_traversal"}

\* three problems of each topic within the weak band of a user at rating 20
StarveCatalog ==
    <<Q("d1", "dp_general", 20), Q("d2", "dp_general", 22),
      Q("d3", "dp_general", 18), Q("g1", "graph_traversal", 20),
      Q("g2", "graph_traversal", 22), Q("g3", "graph_traversal", 18)>>

StarveIds == {StarveCatalog[k].id : k \in DOMAIN StarveCatalog}

InitStarve ==
    /\ catalog = LoadProblems(StarveCatalog)
    /\ InitTables

NextStarve ==
    \/ \E t \in StarveTopics :
          /\ contests = <<>>
          /\ ActiveWeakRows(weak_topics, 1, t) = {}
          /\ RateRegular(1, t, FALSE)
    \/ \E tl \in TimeLimitInputs :
          /\ Len(contests) <= MaxContests
          /\ ActiveContests(contests, 1) = {}
          /\ CreateContest(1, SmallContest, tl, TRUE)
    \/ \E c \in DOMAIN contests, p \in StarveIds, s \in BOOLEAN :
          /\ contests[c].status = "active"
          /\ ProblemIndex(contests, c, p) # 0
          /\ AttemptsOf(c, p) < MaxAttempts
          /\ SubmitProblem(c, p, s, Null)
    \/ \E c \in DOMAIN contests :
          contests[c].status = "active" /\ EndContest(c)

SpecStarve == InitStarve /\ [][NextStarve]_vars

(***************************************************************************)
(* SpecHistory: one user's contests over more than thirty days             *)
(***************************************************************************)
\* the instants thirty days, and thirty days and a minute, after the start
HistoryClockValues ==
    {HISTORY_DAYS * MinutesPerDay, HISTORY_DAYS * MinutesPerDay + 1}

NextHistory ==
    \/ \E u \in {1}, tl \in TimeLimitInputs :
          Len(contests) <= MaxContests /\ CreateContest(u, SmallContest, tl, FALSE)
    \/ \E c \in DOMAIN contests, p \in ProblemIdInputs, s \in BOOLEAN :
          AttemptsOf(c, p) < MaxAttempts /\ SubmitProblem(c, p, s, Null)
    \/ \E c \in DOMAIN contests : EndContest(c)
    \/ \E c \in DOMAIN contests : AbandonContest(c)
    \/ \E t \in HistoryClockValues : AdvanceClock(t)

SpecHistory == InitContest /\ [][NextHistory]_vars

(***************************************************************************)
(* SpecRace: create and end calls of one user running side by side, each   *)
(* in its own session; a call is split after the query that checks for an  *)
(* ACTIVE contest                                                          *)
(***************************************************************************)
MaxRequests == 3

\* create_contest up to line 58: the user row and the active-contest query
BeginCreate(uid, num_problems, time_limit, include_weak) ==
    /\ UNCHANGED <<reflections, catalog, now, users, topic_ratings, weak_topics, contests,
                   problem_history>>
    /\ IF ActiveContests(contests, uid) # {}
       THEN /\ resp' = Reply("create", uid, "AlreadyActive", <<>>)
            /\ UNCHANGED requests
       ELSE /\ requests' = Append(requests,
                   [op |-> "create", id |-> uid, pc |-> "checked",
                    rating |-> users[uid].rating,
                    num_problems |-> num_problems,
                    time_limit |-> time_limit,
                    include_weak |-> include_weak])
            /\ UNCHANGED resp

\* create_contest from line 61 to its commit, for the call requests[i]
FinishCreate(i) ==
    LET r == requests[i]
    IN  /\ r.op = "create"
        /\ r.pc = "checked"
        /\ requests' = [requests EXCEPT ![i].pc = "done"]
        /\ UNCHANGED <<reflections, catalog, now, users, topic_ratings, weak_topics,
                       problem_history>>
        /\ \E wl \in WeakTopicLists(weak_topics, r.id, r.include_weak) :
           \E out \in SelectProblemsForContest(
                         catalog, r.rating + 10, r.num_problems, wl,
                         RecentProblemIds(problem_history, r.id, now),
                         r.include_weak) :
             IF out.raised
             THEN /\ resp' = Reply("create", r.id, "IndexError", <<>>)
                  /\ UNCHANGED contests
             ELSE IF Len(out.items) < r.num_problems
             THEN /\ resp' = Reply("create", r.id, "NotEnoughProblems", <<>>)
                  /\ UNCHANGED contests
             ELSE LET items == [k \in DOMAIN out.items |->
                                  AdjustItem(out.items[k], weak_topics, r.id)]
                  IN  /\ contests' = Append(contests,
                             NewContest(r.id, r.rating, r.num_problems,
                                        r.time_limit, items, now))
                      /\ resp' = Reply("create", r.id, "", <<>>)

\* end_contest up to line 328: the contest row and its status
BeginEnd(cid) ==
    /\ UNCHANGED <<reflections, catalog, now, users, topic_ratings, weak_topics, contests,
                   problem_history>>
    /\ IF cid \notin DOMAIN contests
       THEN /\ resp' = Reply("end", cid, "ContestNotFound", <<>>)
            /\ UNCHANGED requests
       ELSE IF contests[cid].status # "active"
       THEN /\ resp' = Reply("end", cid, "NotActive", <<>>)
            /\ UNCHANGED requests
       ELSE /\ requests' = Append(requests,
                   [op |-> "end", id |-> cid, pc |-> "checked"])
            /\ UNCHANGED resp

\* end_contest from line 330 on, for the call requests[i]
FinishEnd(i) ==
    /\ requests[i].op = "end"
    /\ requests[i].pc = "checked"
    /\ requests' = [requests EXCEPT ![i].pc = "done"]
    /\ UNCHANGED <<reflections, catalog, now, problem_history>>
    /\ EndReply(requests[i].id, EndContestRun(Database, requests[i].id, now))

NextRace ==
    \/ \E tl \in TimeLimitInputs :
          Len(requests) < MaxRequests /\ BeginCreate(1, SmallContest, tl, FALSE)
    \/ \E i \in DOMAIN requests : FinishCreate(i)
    \/ \E c \in DOMAIN contests :
          Len(requests) < MaxRequests /\ BeginEnd(c)
    \/ \E i \in DOMAIN requests : FinishEnd(i)
    \/ \E c \in DOMAIN contests, p \in ProblemIdInputs, s \in BOOLEAN :
          AttemptsOf(c, p) < MaxAttempts /\ SubmitProblem(c, p, s, Null)
    \/ \E t \in ClockValues : AdvanceClock(t)

SpecRace == InitContest /\ [][NextRace]_vars

(***************************************************************************)
(* routers/reflections.py; a contest problem is named by its contest and   *)
(* its position in it                                                      *)
(***************************************************************************)
\* what generate_reflection can return: a parsed answer, with or without a
\* pivot sentence in it, or an error
ProviderResults ==
    {[pivot_sentence |-> "insight", error |-> ""],
     [pivot_sentence |-> "", error |-> ""],
     [pivot_sentence |-> "", error |-> "provider failed"]}

\* ProblemReflection(contest_problem_id=...)
NewReflection(cid, k) ==
    [contest_id |-> cid, problem |-> k, editorial_text |-> "",
     pivot_sentence |-> "", generation_error |-> ""]

\* the query ProblemReflection(contest_problem_id).first(), or a new row
ReflectionRow(rows, cid, k) ==
    LET hits == {r \in rows : r.contest_id = cid /\ r.problem = k}
    IN  IF hits = {} THEN NewReflection(cid, k) ELSE CHOOSE r \in hits : TRUE

ReplyGenerate(cid, error, message, called) ==
    [op |-> "generate", id |-> cid, error |-> error, result |-> <<message>>,
     called |-> called]

\* submit_editorial
SubmitEditorial(cid, k, text) ==
    /\ UNCHANGED <<catalog, now, users, topic_ratings, weak_topics, contests,
                   problem_history, requests>>
    /\ IF cid \notin DOMAIN contests \/ k \notin DOMAIN contests[cid].problems
       THEN /\ resp' = Reply("editorial", cid, "ProblemNotFound", <<>>)
            /\ UNCHANGED reflections
       ELSE LET old == ReflectionRow(reflections, cid, k)
            IN  /\ reflections' = (reflections \ {old}) \cup
                                  {[old EXCEPT !.editorial_text = text]}
                /\ resp' = Reply("editorial", cid, "", <<>>)

\* generate_problem_reflection; result is what the provider returns if called
GenerateProblemReflection(cid, k, result) ==
    /\ UNCHANGED <<catalog, now, users, topic_ratings, weak_topics, contests,
                   problem_history, requests>>
    /\ IF cid \notin DOMAIN contests
       THEN /\ resp' = ReplyGenerate(cid, "ContestNotFound", "", FALSE)
            /\ UNCHANGED reflections
       ELSE IF k \notin DOMAIN contests[cid].problems
       THEN /\ resp' = ReplyGenerate(cid, "ProblemNotFound", "", FALSE)
            /\ UNCHANGED reflections
       ELSE LET old == ReflectionRow(reflections, cid, k)
                new == [old EXCEPT
                          !.pivot_sentence = result.pivot_sentence,
                          !.generation_error = result.error]
            IN  IF old.pivot_sentence # "" /\ old.generation_error = ""
                THEN /\ reflections' = reflections \cup {old}
                     /\ resp' = ReplyGenerate(cid, "",
                                   "Reflection already generated", FALSE)
                ELSE /\ reflections' = (reflections \ {old}) \cup {new}
                     /\ resp' = ReplyGenerate(cid, "",
                                   IF result.error = ""
                                   THEN "Reflection generated successfully"
                                   ELSE "Generation failed", TRUE)

(***************************************************************************)
(* SpecReflect: one user's contests and the reflections asked for their    *)
(* problems                                                                *)
(***************************************************************************)
EditorialInputs == {"editorial"}

NextReflect ==
    \/ \E tl \in TimeLimitInputs :
          Len(contests) < MaxContests /\ CreateContest(1, SmallContest, tl, FALSE)
    \/ \E c \in DOMAIN contests, p \in ProblemIdInputs, s \in BOOLEAN :
          AttemptsOf(c, p) < MaxAttempts /\ SubmitProblem(c, p, s, Null)
    \/ \E c \in DOMAIN contests : EndContest(c)
    \/ \E c \in DOMAIN contests : AbandonContest(c)
    \/ \E c \in DOMAIN contests, k \in 1..ContestSize, t \in EditorialInputs :
          SubmitEditorial(c, k, t)
    \/ \E c \in DOMAIN contests, k \in 1..ContestSize, r \in ProviderResults :
          GenerateProblemReflection(c, k, r)

SpecReflect == InitContest /\ [][NextReflect]_vars

(***************************************************************************)
(* Properties                                                              *)
(***************************************************************************)
ContestsOf(u) == {c \in DOMAIN contests : contests[c].user_id = u}

AllSolved(c) ==
    \A i \in DOMAIN c.problems : c.problems[i].status = "solved"

\* C1: after any sequence of create, start_problem, submit, skip, end and
\* abandon calls, every user has at most one contest with status ACTIVE.
AtMostOneActiveContest ==
    \A u \in UserIds :
        Cardinality({c \in ContestsOf(u) : contests[c].status = "active"}) <= 1

\* a user who has closed one contest and has the next one open
SecondContestActive ==
    \E u \in UserIds : \E c, d \in ContestsOf(u) :
        /\ contests[c].status = "completed"
        /\ contests[d].status = "active"

\* C2: a contest's status changes only from ACTIVE to COMPLETED (by end, or by
\* a submit that finds the time limit exceeded) or from ACTIVE to ABANDONED (by
\* abandon); a COMPLETED or ABANDONED contest keeps its status for ever.
StatusOneDirectional ==
    [][\A c \in DOMAIN contests :
          contests'[c].status # contests[c].status =>
             /\ contests[c].status = "active"
             /\ resp'.id = c
             /\ resp'.op \in {"end", "submit", "abandon"}
             /\ resp'.op = "end" => contests'[c].status = "completed"
             /\ resp'.op = "submit" =>
                   /\ contests'[c].status = "completed"
                   /\ now - contests[c].started_at > contests[c].time_limit_minutes
             /\ resp'.op = "abandon" => contests'[c].status = "abandoned"]_vars

\* a call on a closed contest was turned down
ClosedContestRefused ==
    /\ resp.error = "NotActive"
    /\ resp.id \in DOMAIN contests
    /\ contests[resp.id].status \in {"completed", "abandoned"}

\* C3: end on an ACTIVE contest whose problems are all SOLVED returns
\* rating_change 10 and new_rating = old rating + 10 and raises the user's
\* rating by 10; with a problem that is not SOLVED it returns rating_change 0
\* and leaves the rating unchanged.
EndAppliesRatingRule ==
    [][\A c \in DOMAIN contests :
          (resp'.op = "end" /\ resp'.id = c /\ contests[c].status = "active") =>
             LET u      == contests[c].user_id
                 change == IF AllSolved(contests[c]) THEN 10 ELSE 0
             IN  /\ users'[u].rating = users[u].rating + change
                 /\ resp'.error = ""
                 /\ resp'.result[1].rating_change = change
                 /\ resp'.result[1].new_rating = users[u].rating + change]_vars

\* C4: end on an ACTIVE contest is all-or-nothing: no contest is stored as
\* COMPLETED without the rating engine's effects for it; every completed
\* contest is counted in its user's total_contests and its problems in
\* total_problems_attempted.
CompletedMeansRated ==
    \A u \in UserIds :
        LET done == {c \in ContestsOf(u) : contests[c].status = "completed"}
        IN  /\ users[u].total_contests = Cardinality(done)
            /\ \A c \in done :
                  users[u].total_problems_attempted >= Len(contests[c].problems)

TopicRatingInBounds == \A r \in topic_ratings : r.rating \in 100..3000

\* C7: a WeakTopic's current_level is at least 10 in every state, and it
\* increases only by exactly 5, only when a weak-path solve brings
\* consecutive_solves to 2, which is then reset to 0.
LevelRule ==
    /\ [](\A k \in DOMAIN weak_topics : weak_topics[k].current_level >= 10)
    /\ [][\A k \in DOMAIN weak_topics :
            weak_topics'[k].current_level > weak_topics[k].current_level =>
               /\ weak_topics'[k].current_level =
                     weak_topics[k].current_level + 5
               /\ resp'.op = "weak_solved"
               /\ resp'.topic = weak_topics[k].topic
               /\ weak_topics[k].consecutive_solves + 1 = 2
               /\ weak_topics'[k].consecutive_solves = 0]_vars

\* a weak topic that has levelled up after a failure in between
LevelRaised ==
    \E k \in DOMAIN weak_topics :
        /\ weak_topics[k].current_level = 15
        /\ weak_topics[k].total_failures > 0
        /\ weak_topics[k].consecutive_solves = 0
        /\ resp.op = "weak_solved"

\* C8: a WeakTopic becomes inactive exactly when a level-up leaves
\* current_level >= target_level: at every such level-up it is deactivated and
\* resolved_at is set, and nothing else deactivates it.
ResolvedExactlyAtTarget ==
    [][\A k \in DOMAIN weak_topics :
          LET row    == weak_topics[k]
              called == /\ row.is_active
                        /\ resp'.op = "weak_solved"
                        /\ resp'.id = row.user_id
                        /\ resp'.topic = row.topic
                        /\ row.consecutive_solves + 1 = 2
                        /\ row.current_level + 5 >= row.target_level
          IN  /\ called => /\ ~weak_topics'[k].is_active
                           /\ weak_topics'[k].resolved_at # Null
              /\ (row.is_active /\ ~weak_topics'[k].is_active) =>
                    /\ weak_topics'[k].current_level = row.current_level + 5
                    /\ weak_topics'[k].current_level >= row.target_level]_vars

\* C9: at most one active WeakTopic per (user, topic) in every state.
OneActiveWeakTopic ==
    \A u \in UserIds, t \in RatingTopics :
        Cardinality({k \in DOMAIN weak_topics :
                        /\ weak_topics[k].user_id = u
                        /\ weak_topics[k].topic = t
                        /\ weak_topics[k].is_active}) <= 1

\* a topic with an active WeakTopic has just failed again on the regular path
FailedAgainWhileWeak ==
    /\ resp.op = "regular_failed"
    /\ resp.error = ""
    /\ resp.result[1].new_weak_topics = <<>>
    /\ \E k \in DOMAIN weak_topics :
          /\ weak_topics[k].is_active
          /\ weak_topics[k].topic = resp.topic
          /\ weak_topics[k].user_id = resp.id

\* C10: on a catalog with unique ids the list select returns has no problem
\* id twice and no id of the exclusion set.
SelectedIds == [i \in DOMAIN resp.result |-> resp.result[i].problem.id]

SelectionDistinctAndFresh ==
    (resp.op = "select" /\ resp.error = "") =>
        /\ \A i, j \in DOMAIN SelectedIds :
              SelectedIds[i] = SelectedIds[j] => i = j
        /\ Range(SelectedIds) \cap resp.input.excluded = {}

\* a full selection with a weak-topic item, an item the fallback supplied and
\* a non-empty exclusion set
SelectionUsesFallback ==
    /\ resp.op = "select"
    /\ resp.error = ""
    /\ resp.input.excluded # {}
    /\ Len(resp.result) = MaxSelect
    /\ resp.result[1].is_weak_topic_problem
    /\ \E i \in DOMAIN resp.result :
          Abs(resp.result[i].problem.difficulty - resp.input.target_difficulty)
             > DIFFICULTY_TOLERANCE * 2

\* C11: select returns at most num_problems items.
SelectionWithinCount ==
    (resp.op = "select" /\ resp.error = "") =>
        Len(resp.result) <= resp.input.num_problems

\* a full selection for a user with more weak topics than reserved slots
SelectionFullWithWeakTopics ==
    /\ resp.op = "select"
    /\ resp.error = ""
    /\ resp.input.include_weak_topics
    /\ Len(resp.input.weak_topics) = 2
    /\ Len(resp.result) = resp.input.num_problems
    /\ resp.result[1].is_weak_topic_problem

\* C12: a selected item flagged is_weak_topic_problem has a difficulty within
\* 20 of target_difficulty - 10; every other item has a difficulty within 15
\* of target_difficulty.
SelectionWithinBands ==
    (resp.op = "select" /\ resp.error = "") =>
        \A i \in DOMAIN resp.result :
            LET d == resp.result[i].problem.difficulty
                T == resp.input.target_difficulty
            IN  IF resp.result[i].is_weak_topic_problem
                THEN Abs(d - (T - 10)) <= 20
                ELSE Abs(d - T) <= 15

\* a weak-topic item that only the doubled tolerance admits
SelectionUsesRetryBand ==
    /\ resp.op = "select"
    /\ resp.error = ""
    /\ \E i \in DOMAIN resp.result :
          /\ resp.result[i].is_weak_topic_problem
          /\ Abs(resp.result[i].problem.difficulty
                 - (resp.input.target_difficulty - 10)) > 10

\* C13: select never raises: for any catalog, the empty one included, it
\* returns a list.
SelectNeverRaises == resp.op = "select" => resp.error = ""

\* C14: a create that is rejected leaves every table as it was, and no
\* contest ever has fewer problems than its num_problems.
RejectedCreateChangesNothing ==
    /\ [](\A c \in DOMAIN contests :
             Len(contests[c].problems) = contests[c].num_problems)
    /\ [][(resp'.op = "create" /\ resp'.error # "") =>
             UNCHANGED <<users, topic_ratings, weak_topics, contests,
                         problem_history>>]_vars

\* a create turned down because the selector could not fill the contest
CreateShortOfProblems ==
    /\ resp.op = "create"
    /\ resp.error = "NotEnoughProblems"
    /\ contests # <<>>
    /\ \A c \in DOMAIN contests : contests[c].status # "active"

\* C15: submit, end and abandon on a COMPLETED or ABANDONED contest are
\* rejected and change nothing: the contest, its problems, ProblemHistory and
\* all rating, topic and weak-topic state stay as they were.
ClosedContestCallsRejected ==
    [][\A c \in DOMAIN contests :
          (/\ contests[c].status \in {"completed", "abandoned"}
           /\ resp'.op \in {"submit", "end", "abandon"}
           /\ resp'.id = c) =>
             /\ resp'.error = "NotActive"
             /\ UNCHANGED <<users, topic_ratings, weak_topics, contests,
                            problem_history>>]_vars

\* a submit on an abandoned contest was turned down
SubmitOnAbandonedRefused ==
    /\ resp.op = "submit"
    /\ resp.error = "NotActive"
    /\ resp.id \in DOMAIN contests
    /\ contests[resp.id].status = "abandoned"

\* C16: a submit on an ACTIVE contest whose time limit has elapsed is rejected
\* with the time-limit error and is not recorded (attempts, time_taken and
\* ProblemHistory stay), and it ends the contest as an explicit end does:
\* pending and skipped problems become FAILED, the contest becomes COMPLETED
\* and the rating rules are applied once.
ExpiredSubmitEndsContest ==
    [][\A c \in DOMAIN contests :
          (/\ contests[c].status = "active"
           /\ now - contests[c].started_at > contests[c].time_limit_minutes
           /\ resp'.op = "submit"
           /\ resp'.id = c) =>
             LET u == contests[c].user_id
             IN  /\ resp'.error = "TimeLimitExceeded"
                 /\ problem_history' = problem_history
                 /\ contests'[c].status = "completed"
                 /\ \A i \in DOMAIN contests[c].problems :
                       LET old == contests[c].problems[i]
                           new == contests'[c].problems[i]
                       IN  /\ new.attempts = old.attempts
                           /\ new.time_taken_seconds = old.time_taken_seconds
                           /\ new.status = IF old.status = "solved"
                                           THEN "solved" ELSE "failed"
                 /\ users'[u].total_contests = users[u].total_contests + 1]_vars

\* C17: once a contest is COMPLETED or ABANDONED no submit, skip or
\* start_problem call changes any of its problems (status, started_at,
\* submitted_at, time_taken, attempts).
ClosedContestProblemsFrozen ==
    [][\A c \in DOMAIN contests :
          contests[c].status \in {"completed", "abandoned"} =>
             contests'[c].problems = contests[c].problems]_vars

\* C18: every problem of a COMPLETED contest is SOLVED or FAILED, whatever is
\* called after the contest ended.
CompletedProblemsSettled ==
    \A c \in DOMAIN contests :
        contests[c].status = "completed" =>
           \A i \in DOMAIN contests[c].problems :
              contests[c].problems[i].status \in {"solved", "failed"}

\* C19: abandon on an ACTIVE contest only sets the status to ABANDONED and
\* stamps ended_at: rating_change stays 0 and the user's rating and counters,
\* every TopicRating and every WeakTopic are unchanged.
AbandonOnlyClosesContest ==
    [][\A c \in DOMAIN contests :
          (/\ contests[c].status = "active"
           /\ resp'.op = "abandon"
           /\ resp'.id = c) =>
             /\ resp'.error = ""
             /\ contests' = [contests EXCEPT ![c].status = "abandoned",
                                             ![c].ended_at = now]
             /\ contests'[c].rating_change = 0
             /\ UNCHANGED <<users, topic_ratings, weak_topics,
                            problem_history>>]_vars

\* a contest abandoned after one of its problems was solved
AbandonedAfterSolve ==
    /\ resp.op = "abandon"
    /\ resp.error = ""
    /\ contests[resp.id].status = "abandoned"
    /\ \E i \in DOMAIN contests[resp.id].problems :
          contests[resp.id].problems[i].status = "solved"

\* C20: on the regular path a failed problem creates a new active WeakTopic
\* for its topic exactly when, counting this attempt, the topic has at least
\* 2 attempts, at most half of them solved, and no active WeakTopic; the new
\* row has current_level = max(10, rating - 20), target_level = rating + 10
\* and zeroed counters, and the topic is listed in new_weak_topics.
WeakTopicDetection ==
    [][(resp'.op \in {"regular_failed", "regular_solved"}) =>
          LET u        == resp'.id
              t        == resp'.topic
              olds     == {r \in topic_ratings : r.user_id = u /\ r.topic = t}
              attempts == IF olds = {} THEN 1
                          ELSE (CHOOSE r \in olds : TRUE).problems_attempted + 1
              solves   == IF olds = {} THEN 0
                          ELSE (CHOOSE r \in olds : TRUE).problems_solved
              active   == \E k \in DOMAIN weak_topics :
                             /\ weak_topics[k].user_id = u
                             /\ weak_topics[k].topic = t
                             /\ weak_topics[k].is_active
              due      == /\ resp'.op = "regular_failed"
                          /\ attempts >= 2
                          /\ 2 * solves <= attempts
                          /\ ~active
              row      == weak_topics'[Len(weak_topics')]
          IN  IF due
              THEN /\ Len(weak_topics') = Len(weak_topics) + 1
                   /\ SubSeq(weak_topics', 1, Len(weak_topics)) = weak_topics
                   /\ row.user_id = u
                   /\ row.topic = t
                   /\ row.is_active
                   /\ row.current_level =
                         IF users[u].rating - 20 > 10
                         THEN users[u].rating - 20 ELSE 10
                   /\ row.target_level = users[u].rating + 10
                   /\ row.consecutive_solves = 0
                   /\ row.total_attempts = 0
                   /\ row.total_failures = 0
                   /\ resp'.result[1].new_weak_topics = <<t>>
              ELSE /\ weak_topics' = weak_topics
                   /\ resp'.result[1].new_weak_topics = <<>>]_vars

\* a failure that brings a topic to one solve in two attempts is detected
DetectedAtHalf ==
    /\ resp.op = "regular_failed"
    /\ resp.result[1].new_weak_topics = <<resp.topic>>
    /\ \E r \in topic_ratings :
          /\ r.topic = resp.topic
          /\ r.problems_attempted = 2
          /\ r.problems_solved = 1
    /\ weak_topics[Len(weak_topics)].current_level = 10
    /\ weak_topics[Len(weak_topics)].target_level = 30

\* C21: every weak-topic problem that create assigns is drawn at the user's
\* WeakTopic.current_level for its topic at creation time: its difficulty lies
\* within the selector's widest weak band (20) of that level.
WeakProblemAtCurrentLevel ==
    (resp.op = "create" /\ resp.error = "") =>
        LET c == contests[Len(contests)]
        IN  \A i \in DOMAIN c.problems :
               c.problems[i].is_weak_topic_problem =>
                  \E k \in DOMAIN weak_topics :
                     /\ weak_topics[k].user_id = c.user_id
                     /\ weak_topics[k].topic = c.problems[i].topic
                     /\ weak_topics[k].is_active
                     /\ c.problems[i].difficulty - weak_topics[k].current_level <= 20
                     /\ weak_topics[k].current_level - c.problems[i].difficulty <= 20

\* C22: create sets the contest's target_difficulty to the user's overall
\* rating + 10 and rating_at_start to the overall rating at that moment, and
\* no later operation modifies either field.
ContestRatingFieldsFrozen ==
    [][/\ \A c \in DOMAIN contests :
             /\ c \in DOMAIN contests'
             /\ contests'[c].target_difficulty = contests[c].target_difficulty
             /\ contests'[c].rating_at_start = contests[c].rating_at_start
       /\ \A c \in DOMAIN contests' \ DOMAIN contests :
             /\ contests'[c].rating_at_start = users[contests'[c].user_id].rating
             /\ contests'[c].target_difficulty =
                   users[contests'[c].user_id].rating + 10]_vars

\* a contest created and ended after an earlier one was ended
SecondContestEnded ==
    \E c, d \in DOMAIN contests :
        /\ c < d
        /\ contests[c].user_id = contests[d].user_id
        /\ contests[c].status = "completed"
        /\ contests[d].status = "completed"
        /\ contests[c].target_difficulty = contests[c].rating_at_start + 10
        /\ contests[d].target_difficulty = contests[d].rating_at_start + 10

\* C23: a contest created for a user contains no problem that the same user
\* submitted (solved or failed) within the 30 days before the creation; a
\* problem whose last submission is older than 30 days may be selected again.
NoRecentProblemInNewContest ==
    [][(resp'.op = "create" /\ resp'.error = "") =>
          LET c == contests'[Len(contests')]
          IN  \A i \in DOMAIN c.problems : \A h \in problem_history :
                 (h.user_id = c.user_id
                  /\ h.problem_id = c.problems[i].problem_id) =>
                     now - h.last_attempted_at > 30 * 1440]_vars

\* a user's new contest leaves out the problem that user failed thirty days
\* ago and holds the one the user submitted thirty days and a minute ago
RecentAvoidedOldReused ==
    /\ resp.op = "create"
    /\ resp.error = ""
    /\ \E h \in problem_history :
          /\ h.user_id = resp.id
          /\ h.times_solved = 0
          /\ now - h.last_attempted_at <= 30 * 1440
          /\ \A i \in DOMAIN contests[Len(contests)].problems :
                contests[Len(contests)].problems[i].problem_id # h.problem_id
    /\ \E h \in problem_history :
          /\ h.user_id = resp.id
          /\ now - h.last_attempted_at > 30 * 1440
          /\ \E i \in DOMAIN contests[Len(contests)].problems :
                contests[Len(contests)].problems[i].problem_id = h.problem_id

\* C24: once an ACTIVE contest's time limit has elapsed, the next submit,
\* skip or start_problem on it ends the contest instead of being applied.
ExpiryDetectedOnWrite ==
    [][\A c \in DOMAIN contests :
          (/\ contests[c].status = "active"
           /\ now - contests[c].started_at > contests[c].time_limit_minutes
           /\ resp'.id = c
           /\ resp'.op \in {"submit", "skip", "start_problem"}) =>
             /\ contests'[c].status = "completed"
             /\ resp'.error # ""]_vars

\* C25: also when two create requests for the same user interleave, each
\* performing its active-contest check before either has inserted its
\* contest, at most one of them ends up creating an ACTIVE contest.
InterleavedCreatesKeepOneActive ==
    \A u \in UserIds : \A c, d \in DOMAIN contests :
        (/\ contests[c].user_id = u
         /\ contests[d].user_id = u
         /\ contests[c].status = "active"
         /\ contests[d].status = "active") => c = d

NoReflectionWhileActive ==
    [][\A c \in DOMAIN contests :
          (/\ contests[c].status = "active"
           /\ resp'.op = "generate"
           /\ resp'.id = c) =>
             /\ ~resp'.called
             /\ {r \in reflections' : r.pivot_sentence # ""
                                      \/ r.generation_error # ""}
                   \subseteq reflections]_vars

\* C28 as stated: every problem chosen by the diversity slice (not flagged
\* weak, not from the fallback) has |difficulty - target_difficulty| <= 5.
DiversityWithinTolerance ==
    (resp.op = "select" /\ resp.error = "") =>
        \A i \in DOMAIN resp.result :
            (i <= resp.topical /\ ~resp.result[i].is_weak_topic_problem) =>
                /\ resp.result[i].problem.difficulty
                      - resp.input.target_difficulty <= 5
                /\ resp.input.target_difficulty
                      - resp.result[i].problem.difficulty <= 5

\* C28 as amended: a problem chosen by the diversity slice lies within 5 of
\* the target when its topic holds an unused problem that near, and within
\* 10, the doubled tolerance of the retry, otherwise.
DiversityWithinRetryBand ==
    (resp.op = "select" /\ resp.error = "") =>
        \A i \in DOMAIN resp.result :
            (i <= resp.topical /\ ~resp.result[i].is_weak_topic_problem) =>
                LET item == resp.result[i]
                    far  == IF item.problem.difficulty
                                 >= resp.input.target_difficulty
                            THEN item.problem.difficulty
                                    - resp.input.target_difficulty
                            ELSE resp.input.target_difficulty
                                    - item.problem.difficulty
                    used == resp.input.excluded \cup
                            {resp.result[j].problem.id : j \in 1..(i - 1)}
                IN  /\ far <= 10
                    /\ far > 5 =>
                          \A k \in DOMAIN catalog :
                              (/\ GetTopic(catalog[k]) = item.topic
                               /\ catalog[k].difficulty
                                     - resp.input.target_difficulty <= 5
                               /\ resp.input.target_difficulty
                                     - catalog[k].difficulty <= 5)
                                 => catalog[k].id \in used

\* the diversity slice took a problem more than 5 away from the target
DiversityUsesRetry ==
    /\ resp.op = "select"
    /\ resp.error = ""
    /\ \E i \in DOMAIN resp.result :
          /\ i <= resp.topical
          /\ ~resp.result[i].is_weak_topic_problem
          /\ resp.result[i].problem.difficulty
                - resp.input.target_difficulty > 5

\* the topics that hold an unused problem within d of the target
TopicsNear(d, used) ==
    {GetTopic(catalog[k]) : k \in
        {j \in DOMAIN catalog :
            /\ catalog[j].id \notin used
            /\ catalog[j].difficulty - resp.input.target_difficulty <= d
            /\ resp.input.target_difficulty - catalog[j].difficulty <= d}}

NoWeakTopicsPassed ==
    resp.input.weak_topics = <<>> \/ ~resp.input.include_weak_topics

TopicRepeated ==
    \E i, j \in DOMAIN resp.result :
        i < j /\ resp.result[i].topic = resp.result[j].topic

\* every catalog topic that gave no item before the fallback has no unused
\* problem the loop could have taken
UnusedTopicsTried ==
    \A t \in TopicsNear(10, resp.input.excluded \cup
                            {resp.result[i].problem.id :
                                i \in 1..Min(resp.topical, Len(resp.result))}) :
        \E i \in 1..Min(resp.topical, Len(resp.result)) : resp.result[i].topic = t

\* C29 as stated: with no weak topics passed, for any number of catalog
\* topics and any shuffle order: when at least num_problems topics hold an
\* unused problem within 5 of the target the items have pairwise distinct
\* topics, and a topic is repeated only after every not-yet-used topic has
\* been tried.
TopicsDistinctWherePossible ==
    (resp.op = "select" /\ resp.error = "" /\ NoWeakTopicsPassed) =>
        /\ Cardinality(TopicsNear(5, resp.input.excluded))
              >= resp.input.num_problems => ~TopicRepeated
        /\ TopicRepeated => UnusedTopicsTried

\* C29 as amended: the same, for a catalog with no more topics than the loop
\* has attempts, 10 * num_problems.
TopicsDistinctWithinAttempts ==
    (/\ resp.op = "select"
     /\ resp.error = ""
     /\ NoWeakTopicsPassed
     /\ Len(TopicKeys(catalog)) <= 10 * resp.input.num_problems) =>
        /\ Cardinality(TopicsNear(5, resp.input.excluded))
              >= resp.input.num_problems => ~TopicRepeated
        /\ TopicRepeated => UnusedTopicsTried

\* several problems, each of its own topic, from a catalog with that many
\* topics near the target
DistinctTopicsChosen ==
    /\ resp.op = "select"
    /\ resp.error = ""
    /\ NoWeakTopicsPassed
    /\ Len(TopicKeys(catalog)) <= 10 * resp.input.num_problems
    /\ resp.input.num_problems >= 2
    /\ Cardinality(TopicsNear(5, resp.input.excluded)) >= resp.input.num_problems
    /\ Len(resp.result) = resp.input.num_problems
    /\ ~TopicRepeated

\* C30: within an ACTIVE contest a problem's status leaves PENDING only to
\* SOLVED, FAILED or SKIPPED, an already submitted problem changes status only
\* by a resubmission through submit, and skip never turns a SOLVED or FAILED
\* problem into SKIPPED.
ProblemStatusSteps ==
    [][\A c \in DOMAIN contests :
          (contests[c].status = "active" /\ contests'[c].status = "active") =>
             \A i \in DOMAIN contests[c].problems :
                LET old == contests[c].problems[i].status
                    new == contests'[c].problems[i].status
                IN  old # new =>
                       /\ old = "pending" => new \in {"solved", "failed", "skipped"}
                       /\ old \in {"solved", "failed"} => resp'.op = "submit"
                       /\ new # "pending"]_vars

\* C31: on the weak-topic path a failed problem adds one to total_attempts and
\* to total_failures and resets consecutive_solves to 0; current_level drops
\* by 5, not below 10, only if total_failures after the increment exceeds 3 and
\* current_level > 10, and is otherwise unchanged; the row stays active.
WeakFailureRule ==
    [][\A k \in DOMAIN weak_topics :
          LET row    == weak_topics[k]
              new    == weak_topics'[k]
              called == /\ row.is_active
                        /\ resp'.op = "weak_failed"
                        /\ resp'.id = row.user_id
                        /\ resp'.topic = row.topic
          IN  called =>
                 /\ new.total_attempts = row.total_attempts + 1
                 /\ new.total_failures = row.total_failures + 1
                 /\ new.consecutive_solves = 0
                 /\ new.is_active
                 /\ new.current_level =
                       IF row.total_failures + 1 > 3 /\ row.current_level > 10
                       THEN IF row.current_level - 5 < 10 THEN 10
                            ELSE row.current_level - 5
                       ELSE row.current_level]_vars

\* a fourth or later failure has just left a level above 10: the row stood
\* one step higher before it
LevelRegressed ==
    /\ resp.op = "weak_failed"
    /\ \E k \in DOMAIN weak_topics :
          /\ weak_topics[k].is_active
          /\ weak_topics[k].user_id = resp.id
          /\ weak_topics[k].topic = resp.topic
          /\ weak_topics[k].total_failures > 3
          /\ weak_topics[k].current_level > 10

\* C32: create, start_problem, skip, and a submit that does not end the
\* contest leave users (overall rating and aggregate counters), every
\* TopicRating and every WeakTopic unchanged; these tables change only in a
\* step that ends a contest (an end call, or a submit on an expired contest).
RatingTablesChangeOnlyAtEnd ==
    [][LET ending == \/ resp'.op = "end"
                     \/ /\ resp'.op = "submit"
                        /\ resp'.id \in DOMAIN contests
                        /\ contests[resp'.id].status = "active"
                        /\ contests'[resp'.id].status = "completed"
           same   == /\ users' = users
                     /\ topic_ratings' = topic_ratings
                     /\ weak_topics' = weak_topics
       IN  /\ (resp'.op \in {"create", "start_problem", "skip", "submit"}
                /\ ~ending) => same
           /\ ~same => ending]_vars

\* an accepted submit has recorded a solved problem in an ACTIVE contest
\* whose owner's rating, counters and topic rows are still as created
SolvedButNotYetCounted ==
    /\ resp.op = "submit"
    /\ resp.error = ""
    /\ resp.id \in DOMAIN contests
    /\ contests[resp.id].status = "active"
    /\ \E i \in DOMAIN contests[resp.id].problems :
          contests[resp.id].problems[i].status = "solved"
    /\ users[contests[resp.id].user_id] = NewUser
    /\ topic_ratings = {}
    /\ weak_topics = <<>>

\* C33: a topic can be remediated more than once: when a topic whose earlier
\* WeakTopic was resolved is weak again, the solve that lifts the second
\* WeakTopic to its target level resolves that one as well.
SecondRemediationResolves ==
    [][\A k \in DOMAIN weak_topics :
          LET row    == weak_topics[k]
              again  == \E j \in DOMAIN weak_topics :
                           /\ j # k
                           /\ weak_topics[j].user_id = row.user_id
                           /\ weak_topics[j].topic = row.topic
                           /\ ~weak_topics[j].is_active
              called == /\ row.is_active
                        /\ again
                        /\ resp'.op = "weak_solved"
                        /\ resp'.id = row.user_id
                        /\ resp'.topic = row.topic
                        /\ row.consecutive_solves + 1 = 2
                        /\ row.current_level + 5 >= row.target_level
          IN  called => /\ resp'.error = ""
                        /\ ~weak_topics'[k].is_active
                        /\ weak_topics'[k].resolved_at # Null]_vars

\* C34: failing a regular-topic problem never increases the topic's
\* TopicRating: after the failure the rating is at most its value before, or
\* for a row the failure created, at most the overall rating that seeded it.
FailureNeverRaisesTopicRating ==
    [][resp'.op = "regular_failed" =>
          \A r \in topic_ratings' :
              (r.user_id = resp'.id /\ r.topic = resp'.topic) =>
                  LET before == {q \in topic_ratings :
                                    q.user_id = r.user_id /\ q.topic = r.topic}
                  IN  /\ \A q \in before : r.rating <= q.rating
                      /\ before = {} => r.rating <= users[r.user_id].rating]_vars

\* C35: every active WeakTopic has current_level < target_level in every
\* reachable state: at creation, after a level-up that leaves it active, and
\* after a regression.
ActiveBelowTarget ==
    \A k \in DOMAIN weak_topics :
        weak_topics[k].is_active =>
            weak_topics[k].current_level < weak_topics[k].target_level

\* a level-up has just left a WeakTopic active, one step below its target,
\* after at least one failure
ActiveAfterLevelUp ==
    /\ resp.op = "weak_solved"
    /\ \E k \in DOMAIN weak_topics :
          /\ weak_topics[k].is_active
          /\ weak_topics[k].topic = resp.topic
          /\ weak_topics[k].user_id = resp.id
          /\ weak_topics[k].consecutive_solves = 0
          /\ weak_topics[k].total_failures > 0
          /\ weak_topics[k].current_level + 5 = weak_topics[k].target_level

\* C36: a user's overall rating never decreases: in every step it stays or
\* grows by exactly 10, and it grows only in a step that completes one of the
\* user's ACTIVE contests.
RatingOnlyRisesAtEnd ==
    [][\A u \in UserIds :
          /\ users'[u].rating >= users[u].rating
          /\ users'[u].rating # users[u].rating =>
                /\ users'[u].rating = users[u].rating + 10
                /\ \E c \in DOMAIN contests :
                      /\ contests[c].user_id = u
                      /\ contests[c].status = "active"
                      /\ contests'[c].status = "completed"]_vars

\* an end call has completed a contest in which a problem failed, and the
\* owner's rating is not below the rating the contest started at
EndedWithFailure ==
    /\ resp.op = "end"
    /\ resp.id \in DOMAIN contests
    /\ contests[resp.id].status = "completed"
    /\ \E i \in DOMAIN contests[resp.id].problems :
          /\ contests[resp.id].problems[i].status = "failed"
          /\ contests[resp.id].problems[i].attempts > 0
    /\ users[contests[resp.id].user_id].rating >=
          contests[resp.id].rating_at_start

\* C37: in sequential executions, when a contest becomes COMPLETED the
\* old_rating its end reports (if it reports a result) is the contest's
\* rating_at_start, and rating_at_start + rating_change is the owner's overall
\* rating right after that step.
HistoryMatchesRating ==
    [][\A c \in DOMAIN contests :
          (contests[c].status = "active" /\ contests'[c].status = "completed")
             => /\ contests'[c].rating_at_start + contests'[c].rating_change
                      = users'[contests[c].user_id].rating
                /\ resp'.result # <<>> =>
                      resp'.result[1].old_rating = contests[c].rating_at_start]_vars

\* an end call has just completed a user's third contest, every problem of
\* which was solved
ThirdContestJustEnded ==
    /\ resp.op = "end"
    /\ resp.id = 3
    /\ 3 \in DOMAIN contests
    /\ contests[3].status = "completed"
    /\ AllSolved(contests[3])
    /\ \A c \in 1..2 : contests[c].status = "completed"

WeakActive(t) == ActiveWeakRows(weak_topics, 1, t) # {}

\* some contest of user 1 holds a weak-topic problem of topic t
WeakServed(t) ==
    \E c \in DOMAIN contests : \E i \in DOMAIN contests[c].problems :
        /\ contests[c].user_id = 1
        /\ contests[c].problems[i].is_weak_topic_problem
        /\ contests[c].problems[i].topic = t

\* user 1 has gone through every contest the bound allows
ContestsAllEnded ==
    /\ Len(contests) = MaxContests + 1
    /\ \A c \in DOMAIN contests : contests[c].status = "completed"

====
